---------------------------- MODULE Spec2Model ----------------------------
(***************************************************************************)
(* prefetcharr: now-playing events of a media server drive the monitoring  *)
(* and search requests sent to Sonarr (the PVR).                           *)
(*                                                                         *)
(*   Seen cache       src/src/util/once.rs (src/src/once.rs: the earlier   *)
(*                    revision with the same cache, keyed from NowPlaying) *)
(*   episode window   src/src/sonarr.rs                                    *)
(*   decision engine  src/src/process.rs                                   *)
(*   retry            src/src/util.rs                                      *)
(*   startup, poller  src/src/main.rs, src/src/media_server.rs             *)
(*                                                                         *)
(* Time is counted in seconds (the unit of RETAIN_DURATION).               *)
(***************************************************************************)
EXTENDS Integers, Sequences, FiniteSets, TLC

VARIABLES
    now,        \* Instant::now(), seconds since the process started
    nticks,     \* how often the clock was advanced (bounded by MaxTicks)
    seen,       \* Seen.0 : HashSet<Entry>
    last,       \* history: the latest once() call
    track,      \* history: the once() call before the latest
    w_in,       \* the arguments of a window computation
    w_out,      \* its result
    w_done,     \* whether it was computed
    chan,       \* mpsc::channel(1): the messages queued for the Actor
    tx_open,    \* whether the sender is still alive
    source,     \* the media server: the events it may report and how many more
    fut,        \* Actor::process: its await point and the locals of prefetch()
    recvd,      \* the last two messages rx.recv() yielded, and when
    exclude_tag,        \* Actor::exclude_tag : Option<Tag>
    prefetch_num,       \* Actor::prefetch_num
    request_seasons,    \* Actor::request_seasons
    pvr_series,     \* Sonarr: the series it lists
    pvr_tags,       \* Sonarr: the tags it lists
    pvr_episodes,   \* Sonarr: the episodes it lists for a series
    rt,         \* util::retry: its loop variables and what it did so far
    run         \* main::run: its position, the probes passed and the poller

seen_vars == <<now, nticks, seen, last, track>>

window_vars == <<w_in, w_out, w_done>>

actor_vars ==
    <<chan, tx_open, source, fut, recvd, exclude_tag, prefetch_num,
      request_seasons>>

pvr_vars == <<pvr_series, pvr_tags, pvr_episodes>>

run_vars == <<rt, run>>

vars ==
    <<now, nticks, seen, last, track, w_in, w_out, w_done, chan, tx_open,
      source, fut, recvd, exclude_tag, prefetch_num, request_seasons,
      pvr_series, pvr_tags, pvr_episodes, rt, run>>

-----------------------------------------------------------------------------
(* Bounds *)

MaxTicks == 2

\* the longest catalogue a window is computed over
MaxCat == 3

\* the largest number of episodes a window is asked for
MaxNum == 2

\* how many events the source delivers
MaxEvents == 2

\* the retries given to retry() are 0..MaxRetries
MaxRetries == 3

\* Client::now_playing_updates is polled at most MaxPolls times
MaxPolls == 2

\* Option<T>: None is the empty sequence, Some(x) the sequence of x alone
None == <<>>

Some(x) == <<x>>

-----------------------------------------------------------------------------
(* media_server.rs: Series, User, NowPlaying *)

Tvdb(i) == [kind |-> "Tvdb", tvdb |-> i, title |-> ""]

Title(t) == [kind |-> "Title", tvdb |-> 0, title |-> t]

SeriesSet == {Tvdb(1), Title("A")}

SeasonSet == {0, 1}

EpisodeSet == {1, 2}

UserSet == {[name |-> "ann", id |-> "u1"], [name |-> "bob", id |-> "u2"]}

LibrarySet == {"", "tv"}

NowPlaying ==
    [series : SeriesSet, season : SeasonSet, episode : EpisodeSet,
     user : UserSet, library : LibrarySet]

-----------------------------------------------------------------------------
(* util/once.rs *)

RETAIN_DURATION == 60 * 60 * 24 * 7

\* a cache keyed by the series alone
Season_series_only(series, season) == [series |-> series, season |-> 0]

\* struct Season { series, season }: the part of an entry that Eq and Hash read
Season(series, season) == [series |-> series, season |-> season]

Entry_new(series, season, t) ==
    [season |-> Season(series, season), touched |-> t]

\* Instant::saturating_duration_since
saturating_duration_since(t, earlier) == IF t >= earlier THEN t - earlier ELSE 0

\* a mutant of Retained: an entry of exactly 7 days is dropped as well
Retained_strict(e, t) == saturating_duration_since(t, e.touched) < RETAIN_DURATION

Retained(e, t) == saturating_duration_since(t, e.touched) <= RETAIN_DURATION

\* a prune() that retains every entry
prune_nothing(s, t) == s

prune(s, t) == {e \in s : Retained(e, t)}

\* a mutant of replace: entries are equal only if their timestamps are, too
replace_whole_entry(s, entry) == {e \in s : e # entry} \cup {entry}

\* HashSet::replace: the equal entry (same Season) is taken out, the new one put in
replace(s, entry) == {e \in s : e.season # entry.season} \cup {entry}

\* what HashSet::replace returns: is_none() of the entry it replaced
replaced_none(s, entry) == ~ \E e \in s : e.season = entry.season

\* a once() that only prunes and records nothing
once_seen_no_record(s, series, season, t) == prune(s, t)

\* a once() that leaves the entry of a repeated event as it is
once_seen_no_touch(s, series, season, t) ==
    IF replaced_none(prune(s, t), Entry_new(series, season, t))
    THEN replace(prune(s, t), Entry_new(series, season, t))
    ELSE prune(s, t)

\* a once() that records the event and prunes nothing
once_seen_no_prune(s, series, season, t) ==
    replace(s, Entry_new(series, season, t))

\* Seen::once: the cache after the call
once_seen(s, series, season, t) ==
    replace(prune(s, t), Entry_new(series, season, t))

\* a mutant of once_result: every event passes the gate
once_result_always(s, series, season, t) == TRUE

\* Seen::once: the value returned
once_result(s, series, season, t) ==
    replaced_none(prune(s, t), Entry_new(series, season, t))

\* process.rs:58 hands the whole event to Seen::once; the entry is built from
\* its series and season (once.rs, From<&NowPlaying> for Entry)
KeyOf(np) == Season(np.series, np.season)

TouchedOf(s, key) ==
    IF \E e \in s : e.season = key
    THEN (CHOOSE e \in s : e.season = key).touched
    ELSE -1

NoCall ==
    [np |-> CHOOSE e \in NowPlaying : TRUE, at |-> -1, ret |-> FALSE,
     old |-> -1, calls |-> 0]

\* One call seen.once(np) at the current time, with its history record:
\*   old   = touched of the entry stored for the key before the call (-1: none)
\*   calls = how many calls were made so far, counted up to 2
SeenOnce(np) ==
    /\ seen' = once_seen(seen, np.series, np.season, now)
    /\ last' = [np |-> np, at |-> now,
                ret |-> once_result(seen, np.series, np.season, now),
                old |-> TouchedOf(seen, KeyOf(np)),
                calls |-> IF last.calls < 2 THEN last.calls + 1 ELSE 2]

\* no call was made before the latest one
NoTrack == [prev |-> NoCall, first_at |-> -1]

\* One call seen.once(np) with the call before it kept as well:
\*   prev     = the history record of the call made just before this one
\*   first_at = when the call was made that returned true, for a run of calls
\*              for one series and season with no other call between them
\*              (-1: not known)
SeenOnceAgain(np) ==
    /\ SeenOnce(np)
    /\ track' = [prev |-> last,
                 first_at |->
                    IF once_result(seen, np.series, np.season, now) THEN now
                    ELSE IF last.calls > 0 /\ KeyOf(last.np) = KeyOf(np)
                    THEN track.first_at
                    ELSE -1]

-----------------------------------------------------------------------------
(* sonarr.rs: EpisodeResource, episode_window, Client::episodes *)

EpisodeResource(id, season_number, episode_number, has_file) ==
    [id |-> id, season_number |-> season_number,
     episode_number |-> episode_number, has_file |-> has_file]

I32_MIN == -2147483647 - 1

I32_MAX == 2147483647

\* i32::saturating_sub
saturating_sub(a, b) ==
    IF a - b > I32_MAX THEN I32_MAX
    ELSE IF a - b < I32_MIN THEN I32_MIN
    ELSE a - b

\* the sort key (season_number, episode_number), compared as a tuple
KeyLess(a, b) ==
    \/ a.season_number < b.season_number
    \/ /\ a.season_number = b.season_number
       /\ a.episode_number < b.episode_number

RECURSIVE InsertSorted(_, _)
\* e goes behind every element whose key is not greater (the sort is stable)
InsertSorted(e, sorted) ==
    IF sorted = <<>> THEN <<e>>
    ELSE IF KeyLess(e, Head(sorted)) THEN <<e>> \o sorted
    ELSE <<Head(sorted)>> \o InsertSorted(e, Tail(sorted))

RECURSIVE sort_by_key(_)
\* Vec::sort_by_key(|e| (e.season_number, e.episode_number))
sort_by_key(eps) ==
    IF eps = <<>> THEN <<>>
    ELSE InsertSorted(eps[Len(eps)], sort_by_key(SubSeq(eps, 1, Len(eps) - 1)))

RECURSIVE skip_while(_, _, _)
\* .skip_while(|ep| ep.season_number != season_start
\*                  || ep.episode_number != episode_start)
skip_while(eps, season_start, episode_start) ==
    IF eps = <<>> THEN <<>>
    ELSE IF \/ Head(eps).season_number # season_start
            \/ Head(eps).episode_number # episode_start
         THEN skip_while(Tail(eps), season_start, episode_start)
         ELSE eps

\* a mutant of skip1: the matching entry stays in
skip1_nothing(eps) == eps

\* .skip(1)
skip1(eps) == IF eps = <<>> THEN <<>> ELSE Tail(eps)

\* a walk that lets every listed episode through
scan_window_no_gap_check(eps, prev_s, prev_ep) == eps

RECURSIVE scan_window_no_rollover(_, _, _)
\* a walk that does not know the season rollover
scan_window_no_rollover(eps, prev_s, prev_ep) ==
    IF eps = <<>> THEN <<>>
    ELSE LET ep == Head(eps)
             season_delta == saturating_sub(ep.season_number, prev_s)
             episode_delta == saturating_sub(ep.episode_number, prev_ep)
         IN  IF season_delta = 0 /\ (episode_delta = 1 \/ episode_delta = 0)
             THEN <<ep>> \o scan_window_no_rollover(
                                Tail(eps), ep.season_number, ep.episode_number)
             ELSE <<>>

RECURSIVE scan_window_no_duplicates(_, _, _)
\* a walk that takes a duplicate listing for a gap
scan_window_no_duplicates(eps, prev_s, prev_ep) ==
    IF eps = <<>> THEN <<>>
    ELSE LET ep == Head(eps)
             season_delta == saturating_sub(ep.season_number, prev_s)
             episode_delta == saturating_sub(ep.episode_number, prev_ep)
         IN  IF \/ season_delta = 1 /\ ep.episode_number = 1
                \/ season_delta = 0 /\ episode_delta = 1
             THEN <<ep>> \o scan_window_no_duplicates(
                                Tail(eps), ep.season_number, ep.episode_number)
             ELSE <<>>

RECURSIVE scan_window(_, _, _)
\* .scan((season_start, episode_start), ...): the walk ends at the first None
scan_window(eps, prev_s, prev_ep) ==
    IF eps = <<>> THEN <<>>
    ELSE LET ep == Head(eps)
             season_delta == saturating_sub(ep.season_number, prev_s)
             episode_delta == saturating_sub(ep.episode_number, prev_ep)
         IN  IF \/ season_delta = 1 /\ ep.episode_number = 1
                \/ season_delta = 0 /\ episode_delta = 1
             THEN <<ep>> \o scan_window(
                                Tail(eps), ep.season_number, ep.episode_number)
             ELSE IF season_delta = 0 /\ episode_delta = 0
             THEN <<ep>> \o scan_window(
                                Tail(eps), ep.season_number, ep.episode_number)
             ELSE <<>>

\* a take() that lets everything through
take_all(eps, num) == eps

\* .take(num)
take(eps, num) == SubSeq(eps, 1, IF num < Len(eps) THEN num ELSE Len(eps))

episode_window(season_start, episode_start, num, episodes) ==
    take(scan_window(
             skip1(skip_while(sort_by_key(episodes), season_start, episode_start)),
             season_start, episode_start),
         num)

\* a Client::episodes without the early return for season 0
Client_episodes_no_specials_check(season_start, episode_start, num, fetched) ==
    episode_window(season_start, episode_start, num, fetched)

\* Client::episodes, given the episodes the GET returned
Client_episodes(season_start, episode_start, num, fetched) ==
    IF season_start = 0
    THEN <<>>
    ELSE episode_window(season_start, episode_start, num, fetched)

-----------------------------------------------------------------------------
(* sonarr.rs: Tag, SeasonResource, SeriesResource, TagResource *)

Tag_Label(label) == [kind |-> "Label", label |-> label, id |-> 0]

Tag_Id(id) == [kind |-> "Id", label |-> "", id |-> id]

SeasonResource(season_number, monitored) ==
    [season_number |-> season_number, monitored |-> monitored]

SeriesResource(id, title, tvdb_id, monitored, monitor_new_items, seasons, tags) ==
    [id |-> id, title |-> title, tvdb_id |-> tvdb_id, monitored |-> monitored,
     monitor_new_items |-> monitor_new_items, seasons |-> seasons, tags |-> tags]

TagResource(id, label) == [id |-> id, label |-> label]

\* SeriesResource::season_mut: the place of the first season with that number,
\* 0 when there is none
season_mut(series, num) ==
    IF \E i \in 1..Len(series.seasons) : series.seasons[i].season_number = num
    THEN CHOOSE i \in 1..Len(series.seasons) :
            /\ series.seasons[i].season_number = num
            /\ \A j \in 1..(i - 1) : series.seasons[j].season_number # num
    ELSE 0

\* a mutant of monitor_seasons: every season of the series is set monitored
monitor_seasons_all(series, seasons) ==
    [series |-> [series EXCEPT !.seasons =
                    [k \in 1..Len(series.seasons) |->
                        [series.seasons[k] EXCEPT !.monitored = TRUE]]],
     changed |-> seasons # <<>> /\ \E k \in 1..Len(series.seasons) :
                                     ~ series.seasons[k].monitored]

RECURSIVE monitor_seasons(_, _)
\* SeriesResource::monitor_seasons: the series afterwards and the value returned
monitor_seasons(series, seasons) ==
    IF seasons = <<>> THEN [series |-> series, changed |-> FALSE]
    ELSE LET i == season_mut(series, Head(seasons))
             was == IF i = 0 THEN TRUE ELSE series.seasons[i].monitored
             next == IF i = 0 THEN series
                     ELSE [series EXCEPT !.seasons[i].monitored = TRUE]
             rest == monitor_seasons(next, Tail(seasons))
         IN  [series |-> rest.series, changed |-> (~ was) \/ rest.changed]

\* a mutant of is_tagged_with: the tags of the series are not looked at
is_tagged_with_unknown(series, tag) == None

\* SeriesResource::is_tagged_with : Option<bool>
is_tagged_with(series, tag) ==
    IF tag.kind # "Id" THEN None
    ELSE IF series.tags = None THEN None
    ELSE Some(\E i \in 1..Len(series.tags[1]) : series.tags[1][i] = tag.id)

\* Client::resolve_tag, given the tags the GET returned: Some(id) of the first
\* tag with the label, None for "tag not known"
resolve_tag(tags, label) ==
    IF \E i \in 1..Len(tags) : tags[i].label = Some(label)
    THEN LET i == CHOOSE i \in 1..Len(tags) :
                     /\ tags[i].label = Some(label)
                     /\ \A j \in 1..(i - 1) : tags[j].label # Some(label)
         IN  Some(tags[i].id)
    ELSE None

\* a mutant of search_season_put_body: the record is sent as it was given
search_season_put_body_as_given(series, season_num) == series

\* Client::search_season: the record it PUTs, series and season set monitored
search_season_put_body(series, season_num) ==
    [series EXCEPT !.monitored = TRUE,
                   !.seasons[season_mut(series, season_num)].monitored = TRUE]

-----------------------------------------------------------------------------
(* process.rs: Actor *)

\* one request to Sonarr, logged when its answer arrives
Request(op, body, ids, season, ok) ==
    [op |-> op, body |-> body, ids |-> ids, season |-> season, ok |-> ok]

\* the Actor waiting in rx.recv(): no event, no locals
Idle ==
    [pc |-> "recv", np |-> None, series |-> None, fetched |-> None,
     episodes |-> <<>>, series_modified |-> FALSE, season_numbers |-> <<>>,
     season_calls |-> <<>>, failed_seasons |-> <<>>, log |-> <<>>,
     outcome |-> "none"]

\* prefetch() returns: Ok(()) as "skipped", "excluded" or "ok", an Err as "err"
Finish(f, outcome) == [f EXCEPT !.pc = "finished", !.outcome = outcome]

Logged(f, req) == [f EXCEPT !.log = Append(@, req)]

\* a mutant of find_series: the first listed series is taken
find_series_first(listing, np) ==
    IF listing = <<>> THEN None ELSE Some(listing[1])

\* Actor::find_series: the first listed series that matches the event
find_series(listing, np) ==
    LET match(s) == IF np.series.kind = "Title"
                    THEN s.title = Some(np.series.title)
                    ELSE s.tvdb_id = np.series.tvdb
    IN  IF \E i \in 1..Len(listing) : match(listing[i])
        THEN LET i == CHOOSE i \in 1..Len(listing) :
                         /\ match(listing[i])
                         /\ \A j \in 1..(i - 1) : ~ match(listing[j])
             IN  Some(listing[i])
        ELSE None

\* a mutant of missing_episodes: the episodes with a file are kept
missing_episodes_unfiltered(episodes) == episodes

\* episodes.into_iter().filter(|e| !e.has_file)
missing_episodes(episodes) == SelectSeq(episodes, LAMBDA e : ~ e.has_file)

episode_ids(episodes) == [i \in 1..Len(episodes) |-> episodes[i].id]

RECURSIVE SortedSeq(_)
SortedSeq(S) ==
    IF S = {} THEN <<>>
    ELSE LET m == CHOOSE x \in S : \A y \in S : x <= y
         IN  <<m>> \o SortedSeq(S \ {m})

\* a mutant of season_numbers_of: the season of every missing episode, in the
\* order of the episodes
season_numbers_of_unsorted(missing) ==
    [i \in 1..Len(missing) |-> missing[i].season_number]

\* the distinct season numbers of the missing episodes, sort_unstable()
season_numbers_of(missing) ==
    SortedSeq({missing[i].season_number : i \in 1..Len(missing)})

\* prefetch(), lines 85-98: series_modified after the monitoring baseline
baseline_modified(series, n_episodes, num) ==
    (~ series.monitored) \/ n_episodes < num

\* a mutant of baseline_series: the series is set monitored and nothing else
baseline_series_monitors_only(series, n_episodes, num) ==
    [series EXCEPT !.monitored = TRUE]

\* prefetch(), lines 85-98: the series after the monitoring baseline
baseline_series(series, n_episodes, num) ==
    LET s1 == [series EXCEPT !.monitored = TRUE]
    IN  IF n_episodes < num
        THEN LET s2 == IF s1.seasons = <<>> THEN s1
                       ELSE [s1 EXCEPT !.seasons[Len(s1.seasons)].monitored = TRUE]
             IN  [s2 EXCEPT !.monitor_new_items = Some("all")]
        ELSE s1

\* the season search_season() is running for
CurrentSeason(f) == Head(f.season_numbers)

\* a mutant of SeasonFailed: the seasons that remain are given up
SeasonFailed_gives_up(f) ==
    [f EXCEPT !.failed_seasons = Append(@, CurrentSeason(f)),
              !.season_numbers = <<>>]

\* search_season() returned Err: the season is skipped (process.rs:117-119)
SeasonFailed(f) ==
    [f EXCEPT !.failed_seasons = Append(@, CurrentSeason(f)),
              !.season_numbers = Tail(@)]

SeasonSearched(f) == [f EXCEPT !.season_numbers = Tail(@)]

RECURSIVE SeasonLoop(_)
\* prefetch(), lines 116-120, up to the first request search_season() awaits
SeasonLoop(f) ==
    IF f.season_numbers = <<>> THEN Finish(f, "ok")
    ELSE LET i == season_mut(f.series[1], CurrentSeason(f))
             call == [f EXCEPT !.season_calls = Append(@, CurrentSeason(f))]
         IN  IF i = 0 THEN SeasonLoop(SeasonFailed(call))
             ELSE IF f.series[1].seasons[i].monitored
                  THEN [call EXCEPT !.pc = "ss_episodes"]
                  ELSE [call EXCEPT !.pc = "ss_put"]

\* search_season(), lines 239-251: behind the episodes of the season
SeasonMonitored(f) ==
    LET i == season_mut(f.series[1], CurrentSeason(f))
    IN  IF (~ f.series[1].seasons[i].monitored) \/ ~ f.series[1].monitored
        THEN [f EXCEPT !.pc = "ss_put"]
        ELSE [f EXCEPT !.pc = "ss_command"]

\* prefetch() behind put_series
AfterPut(f, seasons_mode) ==
    IF seasons_mode THEN SeasonLoop(f) ELSE [f EXCEPT !.pc = "monitor_episodes"]

\* prefetch(), lines 83-130, up to its next request: the window is in
AfterWindow(f, episodes, num, seasons_mode) ==
    LET s1 == baseline_series(f.series[1], Len(episodes), num)
        m1 == baseline_modified(f.series[1], Len(episodes), num)
        nums == season_numbers_of(missing_episodes(episodes))
        ms == monitor_seasons(s1, nums)
        f1 == IF seasons_mode
              THEN [f EXCEPT !.episodes = episodes, !.series = Some(ms.series),
                             !.series_modified = m1 \/ ms.changed,
                             !.season_numbers = nums]
              ELSE [f EXCEPT !.episodes = episodes, !.series = Some(s1),
                             !.series_modified = m1]
    IN  IF f1.series_modified
        THEN [f1 EXCEPT !.pc = "put_series"]
        ELSE AfterPut(f1, seasons_mode)

\* a mutant of StartEpisodes: the episodes are listed for season 0 as well
StartEpisodes_lists_specials(f, num, seasons_mode) ==
    [f EXCEPT !.pc = "episodes"]

\* prefetch(), lines 77-81: Client::episodes answers season 0 without a request
StartEpisodes(f, num, seasons_mode) ==
    IF f.np[1].season = 0
    THEN AfterWindow(f, Client_episodes(f.np[1].season, f.np[1].episode, num, <<>>),
                     num, seasons_mode)
    ELSE [f EXCEPT !.pc = "episodes"]

\* a mutant of AfterTag: an unresolved tag fails the event
AfterTag_needs_id(f, tag, num, seasons_mode) ==
    IF tag.kind = "Label" THEN Finish(f, "err")
    ELSE IF is_tagged_with(f.series[1], tag) = Some(TRUE)
    THEN Finish(f, "excluded")
    ELSE StartEpisodes(f, num, seasons_mode)

\* prefetch(), lines 71-75: the exclusion gate
AfterTag(f, tag, num, seasons_mode) ==
    IF is_tagged_with(f.series[1], tag) = Some(TRUE)
    THEN Finish(f, "excluded")
    ELSE StartEpisodes(f, num, seasons_mode)

\* a mutant of AfterFound: the tags are listed for every event
AfterFound_lists_tags(f, series, tag, num, seasons_mode) ==
    LET f1 == [f EXCEPT !.series = Some(series), !.fetched = Some(series)]
    IN  IF tag = None THEN StartEpisodes(f1, num, seasons_mode)
        ELSE [f1 EXCEPT !.pc = "tag"]

\* prefetch(), lines 64-70: the series is found
AfterFound(f, series, tag, num, seasons_mode) ==
    LET f1 == [f EXCEPT !.series = Some(series), !.fetched = Some(series)]
    IN  IF tag = None THEN StartEpisodes(f1, num, seasons_mode)
        ELSE IF tag[1].kind = "Label" THEN [f1 EXCEPT !.pc = "tag"]
        ELSE AfterTag(f1, tag[1], num, seasons_mode)

LastTwo(q) == IF Len(q) > 2 THEN Tail(q) ELSE q

\* a mutant of Recv: the next message is taken whatever the Actor is doing
Recv_while_busy ==
    /\ fut.pc # "returned"
    /\ chan # <<>>
    /\ chan' = Tail(chan)
    /\ SeenOnce(Head(chan))
    /\ recvd' = LastTwo(Append(recvd, [np |-> Head(chan), at |-> now,
                                       outcome |-> "none"]))
    /\ fut' = IF once_result(seen, Head(chan).series, Head(chan).season, now)
              THEN [Idle EXCEPT !.np = Some(Head(chan)), !.pc = "series"]
              ELSE Finish([Idle EXCEPT !.np = Some(Head(chan))], "skipped")
    /\ UNCHANGED <<now, nticks, track, tx_open, source, exclude_tag,
                   prefetch_num, request_seasons>>
    /\ UNCHANGED <<window_vars, pvr_vars, run_vars>>

\* a mutant of Recv: the message is taken from the queue and dropped
Recv_and_drop ==
    /\ fut.pc = "recv"
    /\ chan # <<>>
    /\ chan' = Tail(chan)
    /\ UNCHANGED <<fut, recvd>>
    /\ UNCHANGED <<tx_open, source, exclude_tag, prefetch_num, request_seasons>>
    /\ UNCHANGED <<seen_vars, window_vars, pvr_vars, run_vars>>

\* process(): rx.recv() yields a message; prefetch() runs to its first await
Recv ==
    /\ fut.pc = "recv"
    /\ chan # <<>>
    /\ chan' = Tail(chan)
    /\ SeenOnce(Head(chan))
    /\ recvd' = LastTwo(Append(recvd, [np |-> Head(chan), at |-> now,
                                       outcome |-> "none"]))
    /\ fut' = IF once_result(seen, Head(chan).series, Head(chan).season, now)
              THEN [Idle EXCEPT !.np = Some(Head(chan)), !.pc = "series"]
              ELSE Finish([Idle EXCEPT !.np = Some(Head(chan))], "skipped")
    /\ UNCHANGED <<now, nticks, track, tx_open, source, exclude_tag,
                   prefetch_num, request_seasons>>
    /\ UNCHANGED <<window_vars, pvr_vars, run_vars>>

\* the answer to GET series (Client::series)
SeriesResp ==
    /\ fut.pc = "series"
    /\ \E ok \in BOOLEAN :
          LET f == Logged(fut, Request("GET series", None, <<>>, 0, ok))
              found == find_series(pvr_series, fut.np[1])
          IN  fut' = IF ~ ok \/ found = None THEN Finish(f, "err")
                     ELSE AfterFound(f, found[1], exclude_tag, prefetch_num,
                                     request_seasons)
    /\ UNCHANGED <<chan, tx_open, source, recvd, exclude_tag, prefetch_num,
                   request_seasons>>
    /\ UNCHANGED <<seen_vars, window_vars, pvr_vars, run_vars>>

\* the answer to GET tag (Client::update_tag)
TagResp ==
    /\ fut.pc = "tag"
    /\ \E ok \in BOOLEAN :
          LET f == Logged(fut, Request("GET tag", None, <<>>, 0, ok))
              id == resolve_tag(pvr_tags, exclude_tag[1].label)
              tag == IF ok /\ id # None THEN Tag_Id(id[1]) ELSE exclude_tag[1]
          IN  /\ exclude_tag' = Some(tag)
              /\ fut' = AfterTag(f, tag, prefetch_num, request_seasons)
    /\ UNCHANGED <<chan, tx_open, source, recvd, prefetch_num, request_seasons>>
    /\ UNCHANGED <<seen_vars, window_vars, pvr_vars, run_vars>>

\* the answer to GET episode (Client::episodes)
EpisodesResp ==
    /\ fut.pc = "episodes"
    /\ \E ok \in BOOLEAN :
          LET f == Logged(fut, Request("GET episode", None, <<>>, 0, ok))
          IN  fut' = IF ~ ok THEN Finish(f, "err")
                     ELSE AfterWindow(f,
                              Client_episodes(fut.np[1].season, fut.np[1].episode,
                                              prefetch_num, pvr_episodes),
                              prefetch_num, request_seasons)
    /\ UNCHANGED <<chan, tx_open, source, recvd, exclude_tag, prefetch_num,
                   request_seasons>>
    /\ UNCHANGED <<seen_vars, window_vars, pvr_vars, run_vars>>

\* Sonarr stores the record that was PUT in place of the one with its id
put_series(listing, series) ==
    [i \in 1..Len(listing) |->
        IF listing[i].id = series.id THEN series ELSE listing[i]]

\* a mutant of PutSeriesResp: prefetch() goes on behind a failed PUT
PutSeriesResp_ignores_error ==
    /\ fut.pc = "put_series"
    /\ \E ok \in BOOLEAN :
          LET f == Logged(fut, Request("PUT series", fut.series, <<>>, 0, ok))
          IN  /\ fut' = AfterPut(f, request_seasons)
              /\ pvr_series' = IF ok THEN put_series(pvr_series, fut.series[1])
                               ELSE pvr_series
    /\ UNCHANGED <<chan, tx_open, source, recvd, exclude_tag, prefetch_num,
                   request_seasons>>
    /\ UNCHANGED <<pvr_tags, pvr_episodes>>
    /\ UNCHANGED <<seen_vars, window_vars, run_vars>>

\* the answer to PUT series/{id} (Client::put_series, process.rs:113 and :123)
PutSeriesResp ==
    /\ fut.pc = "put_series"
    /\ \E ok \in BOOLEAN :
          LET f == Logged(fut, Request("PUT series", fut.series, <<>>, 0, ok))
          IN  /\ fut' = IF ~ ok THEN Finish(f, "err")
                        ELSE AfterPut(f, request_seasons)
              /\ pvr_series' = IF ok THEN put_series(pvr_series, fut.series[1])
                               ELSE pvr_series
    /\ UNCHANGED <<chan, tx_open, source, recvd, exclude_tag, prefetch_num,
                   request_seasons>>
    /\ UNCHANGED <<pvr_tags, pvr_episodes>>
    /\ UNCHANGED <<seen_vars, window_vars, run_vars>>

\* the answer to PUT episode/monitor (Client::monitor_episodes, process.rs:128)
MonitorEpisodesResp ==
    /\ fut.pc = "monitor_episodes"
    /\ \E ok \in BOOLEAN :
          LET ids == episode_ids(missing_episodes(fut.episodes))
              f == Logged(fut, Request("PUT episode/monitor", None, ids, 0, ok))
          IN  fut' = IF ~ ok THEN Finish(f, "err")
                     ELSE [f EXCEPT !.pc = "search_episodes"]
    /\ UNCHANGED <<chan, tx_open, source, recvd, exclude_tag, prefetch_num,
                   request_seasons>>
    /\ UNCHANGED <<seen_vars, window_vars, pvr_vars, run_vars>>

\* the answer to POST command EpisodeSearch (Client::search_episodes)
SearchEpisodesResp ==
    /\ fut.pc = "search_episodes"
    /\ \E ok \in BOOLEAN :
          LET ids == episode_ids(missing_episodes(fut.episodes))
              f == Logged(fut, Request("EpisodeSearch", None, ids, 0, ok))
          IN  fut' = Finish(f, IF ok THEN "ok" ELSE "err")
    /\ UNCHANGED <<chan, tx_open, source, recvd, exclude_tag, prefetch_num,
                   request_seasons>>
    /\ UNCHANGED <<seen_vars, window_vars, pvr_vars, run_vars>>

\* search_season(), lines 227-232: the episodes of the season
season_episodes(episodes, season_num) ==
    SelectSeq(episodes, LAMBDA e : e.season_number = season_num)

\* the answer to GET episode inside search_season()
SsEpisodesResp ==
    /\ fut.pc = "ss_episodes"
    /\ \E ok \in BOOLEAN :
          LET f == Logged(fut, Request("GET episode", None, <<>>,
                                       CurrentSeason(fut), ok))
          IN  fut' = IF ~ ok THEN SeasonLoop(SeasonFailed(f))
                     ELSE IF season_episodes(pvr_episodes, CurrentSeason(fut)) # <<>>
                     THEN [f EXCEPT !.pc = "ss_monitor"]
                     ELSE SeasonMonitored(f)
    /\ UNCHANGED <<chan, tx_open, source, recvd, exclude_tag, prefetch_num,
                   request_seasons>>
    /\ UNCHANGED <<seen_vars, window_vars, pvr_vars, run_vars>>

\* a mutant of SsMonitorResp: a failed monitor call does not end search_season()
SsMonitorResp_ignores_error ==
    /\ fut.pc = "ss_monitor"
    /\ \E ok \in BOOLEAN :
          LET ids == episode_ids(season_episodes(pvr_episodes, CurrentSeason(fut)))
              f == Logged(fut, Request("PUT episode/monitor", None, ids,
                                       CurrentSeason(fut), ok))
          IN  fut' = SeasonMonitored(f)
    /\ UNCHANGED <<chan, tx_open, source, recvd, exclude_tag, prefetch_num,
                   request_seasons>>
    /\ UNCHANGED <<seen_vars, window_vars, pvr_vars, run_vars>>

\* the answer to PUT episode/monitor inside search_season()
SsMonitorResp ==
    /\ fut.pc = "ss_monitor"
    /\ \E ok \in BOOLEAN :
          LET ids == episode_ids(season_episodes(pvr_episodes, CurrentSeason(fut)))
              f == Logged(fut, Request("PUT episode/monitor", None, ids,
                                       CurrentSeason(fut), ok))
          IN  fut' = IF ~ ok THEN SeasonLoop(SeasonFailed(f))
                     ELSE SeasonMonitored(f)
    /\ UNCHANGED <<chan, tx_open, source, recvd, exclude_tag, prefetch_num,
                   request_seasons>>
    /\ UNCHANGED <<seen_vars, window_vars, pvr_vars, run_vars>>

\* the answer to PUT series/{id} inside search_season()
SsPutResp ==
    /\ fut.pc = "ss_put"
    /\ \E ok \in BOOLEAN :
          LET body == search_season_put_body(fut.series[1], CurrentSeason(fut))
              f == Logged(fut, Request("PUT series", Some(body), <<>>,
                                       CurrentSeason(fut), ok))
          IN  /\ fut' = IF ~ ok THEN SeasonLoop(SeasonFailed(f))
                        ELSE [f EXCEPT !.pc = "ss_command"]
              /\ pvr_series' = IF ok THEN put_series(pvr_series, body)
                               ELSE pvr_series
    /\ UNCHANGED <<chan, tx_open, source, recvd, exclude_tag, prefetch_num,
                   request_seasons>>
    /\ UNCHANGED <<pvr_tags, pvr_episodes>>
    /\ UNCHANGED <<seen_vars, window_vars, run_vars>>

\* the answer to POST command SeasonSearch
SsCommandResp ==
    /\ fut.pc = "ss_command"
    /\ \E ok \in BOOLEAN :
          LET f == Logged(fut, Request("SeasonSearch", None, <<>>,
                                       CurrentSeason(fut), ok))
          IN  fut' = SeasonLoop(IF ok THEN SeasonSearched(f) ELSE SeasonFailed(f))
    /\ UNCHANGED <<chan, tx_open, source, recvd, exclude_tag, prefetch_num,
                   request_seasons>>
    /\ UNCHANGED <<seen_vars, window_vars, pvr_vars, run_vars>>

\* a mutant of Loop: an Err ends process()
Loop_stops_on_error ==
    /\ fut.pc = "finished"
    /\ fut' = IF fut.outcome = "err" THEN [Idle EXCEPT !.pc = "returned"]
              ELSE Idle
    /\ recvd' = [recvd EXCEPT ![Len(recvd)].outcome = fut.outcome]
    /\ UNCHANGED <<chan, tx_open, source, exclude_tag, prefetch_num,
                   request_seasons>>
    /\ UNCHANGED <<seen_vars, window_vars, pvr_vars, run_vars>>

\* a mutant of Loop: the entry of an event that ended with an Err is dropped
Loop_forgets_failed ==
    /\ fut.pc = "finished"
    /\ fut' = Idle
    /\ recvd' = [recvd EXCEPT ![Len(recvd)].outcome = fut.outcome]
    /\ seen' = IF fut.outcome = "err"
               THEN {e \in seen : e.season # KeyOf(fut.np[1])}
               ELSE seen
    /\ UNCHANGED <<now, nticks, last, track>>
    /\ UNCHANGED <<chan, tx_open, source, exclude_tag, prefetch_num,
                   request_seasons>>
    /\ UNCHANGED <<window_vars, pvr_vars, run_vars>>

\* process(), lines 49-53: prefetch() returned, an Err is logged, and the loop
\* goes back to rx.recv(); the locals of prefetch() are gone
Loop ==
    /\ fut.pc = "finished"
    /\ fut' = Idle
    /\ recvd' = [recvd EXCEPT ![Len(recvd)].outcome = fut.outcome]
    /\ UNCHANGED <<chan, tx_open, source, exclude_tag, prefetch_num,
                   request_seasons>>
    /\ UNCHANGED <<seen_vars, window_vars, pvr_vars, run_vars>>

\* a mutant of Return: process() returns as soon as the sender is gone
Return_early ==
    /\ fut.pc = "recv"
    /\ ~ tx_open
    /\ fut' = [fut EXCEPT !.pc = "returned"]
    /\ UNCHANGED <<chan, tx_open, source, recvd, exclude_tag, prefetch_num,
                   request_seasons>>
    /\ UNCHANGED <<seen_vars, window_vars, pvr_vars, run_vars>>

\* process(), line 46: rx.recv() yields None, the sender is gone and the queue
\* is empty
Return ==
    /\ fut.pc = "recv"
    /\ chan = <<>>
    /\ ~ tx_open
    /\ fut' = [fut EXCEPT !.pc = "returned"]
    /\ UNCHANGED <<chan, tx_open, source, recvd, exclude_tag, prefetch_num,
                   request_seasons>>
    /\ UNCHANGED <<seen_vars, window_vars, pvr_vars, run_vars>>

-----------------------------------------------------------------------------
(* main.rs: the source of the events *)

\* mpsc::channel(1)
CHANNEL_CAPACITY == 1

\* the events that reach the Actor
Events == {np \in NowPlaying : np.user.id = "u1" /\ np.library = ""}

\* run(), lines 183-192: an event is put into the channel
Send ==
    /\ tx_open
    /\ source.left > 0
    /\ Len(chan) < CHANNEL_CAPACITY
    /\ \E np \in source.of : chan' = Append(chan, np)
    /\ source' = [source EXCEPT !.left = @ - 1]
    /\ UNCHANGED <<tx_open, fut, recvd, exclude_tag, prefetch_num, request_seasons>>
    /\ UNCHANGED <<seen_vars, window_vars, pvr_vars, run_vars>>

\* the stream of events ends and the sender is dropped
Close ==
    /\ tx_open
    /\ tx_open' = FALSE
    /\ UNCHANGED <<chan, source, fut, recvd, exclude_tag, prefetch_num,
                   request_seasons>>
    /\ UNCHANGED <<seen_vars, window_vars, pvr_vars, run_vars>>

-----------------------------------------------------------------------------
(* The clock *)

TickSteps == {1, RETAIN_DURATION}

\* time passes; the clock is read by Seen::once alone, so it is enough to let
\* it pass while the Actor waits for a message
Tick ==
    /\ fut.pc = "recv"
    /\ nticks < MaxTicks
    /\ \E d \in TickSteps : now' = now + d
    /\ nticks' = nticks + 1
    /\ UNCHANGED <<seen, last, track>>
    /\ UNCHANGED <<window_vars, actor_vars, pvr_vars, run_vars>>

-----------------------------------------------------------------------------
(* util.rs: retry *)

\* what one call of the retried operation can yield: Ok or one of two errors
ErrSet == {"refused", "timeout"}

OutcomeSet == {"ok"} \cup ErrSet

\* a mutant of saturating_pow: the delay grows linearly
saturating_pow_linear(base, exp) == base * exp

\* u64::saturating_pow; the result stays far below u64::MAX for the exponents
\* reached here (it saturates from 2^64 on)
saturating_pow(base, exp) == base ^ exp

\* no retry() is running
NoRetry ==
    [pc |-> "none", retries |-> 0, i |-> 0, last_err |-> None, calls |-> <<>>,
     sleeps |-> <<>>, result |-> None]

\* retry(), lines 24-38: the head of the loop for i in 0..=retries, and the
\* Err returned once the range is exhausted
retry_next(r) ==
    IF r.i > r.retries
    THEN [r EXCEPT !.pc = "done", !.result = Some(r.last_err[1])]
    ELSE IF r.last_err # None THEN [r EXCEPT !.pc = "sleep"]
    ELSE [r EXCEPT !.pc = "call"]

\* retry(retries, f) is called and runs to its first await
retry(retries) == retry_next([NoRetry EXCEPT !.retries = retries])

\* retry(), lines 25-29: the sleep before a further attempt is over
RetrySleep ==
    /\ rt.pc = "sleep"
    /\ rt' = [rt EXCEPT !.sleeps = Append(@, saturating_pow(2, rt.i)),
                        !.pc = "call"]
    /\ UNCHANGED run
    /\ UNCHANGED <<seen_vars, window_vars, actor_vars, pvr_vars>>

\* a mutant of RetryCall: the first error is the one that is kept
RetryCall_keeps_first_error ==
    /\ rt.pc = "call"
    /\ \E res \in OutcomeSet :
          LET r1 == [rt EXCEPT !.calls = Append(@, res)]
          IN  rt' = IF res = "ok"
                    THEN [r1 EXCEPT !.pc = "done", !.result = Some("ok")]
                    ELSE retry_next([r1 EXCEPT
                             !.last_err = IF @ = None THEN Some(res) ELSE @,
                             !.i = @ + 1])
    /\ UNCHANGED run
    /\ UNCHANGED <<seen_vars, window_vars, actor_vars, pvr_vars>>

\* retry(), lines 30-36: f() has answered; Ok is returned at once, an Err is
\* kept as last_err and the loop goes on
RetryCall ==
    /\ rt.pc = "call"
    /\ \E res \in OutcomeSet :
          LET r1 == [rt EXCEPT !.calls = Append(@, res)]
          IN  rt' = IF res = "ok"
                    THEN [r1 EXCEPT !.pc = "done", !.result = Some("ok")]
                    ELSE retry_next([r1 EXCEPT !.last_err = Some(res),
                                               !.i = @ + 1])
    /\ UNCHANGED run
    /\ UNCHANGED <<seen_vars, window_vars, actor_vars, pvr_vars>>

-----------------------------------------------------------------------------
(* main.rs: run; media_server.rs: Client::now_playing_updates *)

\* run() was not called
NoRun ==
    [pc |-> "none", connection_retries |-> 0, interval |-> 0, probed |-> <<>>,
     delay |-> 0, slept |-> FALSE, waits |-> <<>>, polls |-> 0,
     results |-> <<>>, batch |-> <<>>, sent |-> 0]

\* run(config) up to its first await, the probe of Sonarr (lines 145-152);
\* the state of the unfold in now_playing_updates starts with a zero delay
Run(connection_retries, interval) ==
    [NoRun EXCEPT !.pc = "probe_sonarr",
                  !.connection_retries = connection_retries,
                  !.interval = interval]

\* what retry() returned for the probe of a server
ProbeResult(server) == [server |-> server, result |-> rt.result[1]]

\* a mutant of Probed: whatever a probe returned, run() goes on
Probed_ignores_result ==
    /\ run.pc \in {"probe_sonarr", "probe_media_server"}
    /\ rt.pc = "done"
    /\ IF run.pc = "probe_sonarr"
       THEN /\ run' = [run EXCEPT !.pc = "probe_media_server",
                                  !.probed = Append(@, ProbeResult("sonarr"))]
            /\ rt' = retry(run.connection_retries)
       ELSE /\ run' = [run EXCEPT !.pc = "running",
                                  !.probed =
                                      Append(@, ProbeResult("media_server"))]
            /\ rt' = NoRetry
    /\ UNCHANGED <<seen_vars, window_vars, actor_vars, pvr_vars>>

\* run(), lines 149-152 and 181: retry() has returned; `?` ends run() on an
\* Err, otherwise the media server is probed after Sonarr, and after both the
\* stream of updates and Actor::process are joined (line 203)
Probed ==
    /\ run.pc \in {"probe_sonarr", "probe_media_server"}
    /\ rt.pc = "done"
    /\ IF rt.result # Some("ok")
       THEN /\ run' = [run EXCEPT !.pc = "failed"]
            /\ UNCHANGED rt
       ELSE IF run.pc = "probe_sonarr"
       THEN /\ run' = [run EXCEPT !.pc = "probe_media_server",
                                  !.probed = Append(@, ProbeResult("sonarr"))]
            /\ rt' = retry(run.connection_retries)
       ELSE /\ run' = [run EXCEPT !.pc = "running",
                                  !.probed =
                                      Append(@, ProbeResult("media_server"))]
            /\ rt' = NoRetry
    /\ UNCHANGED <<seen_vars, window_vars, actor_vars, pvr_vars>>

\* now_playing_updates, lines 75-76: the sleep at the head of an iteration of
\* the unfold is over; the stream is polled again only when every event of
\* the previous answer went into the channel
PollSleep ==
    /\ run.pc = "running"
    /\ ~ run.slept
    /\ run.batch = <<>>
    /\ run.polls < MaxPolls
    /\ run' = [run EXCEPT !.slept = TRUE, !.waits = Append(@, run.delay)]
    /\ UNCHANGED rt
    /\ UNCHANGED <<seen_vars, window_vars, actor_vars, pvr_vars>>

\* the sessions a poll can report: up to two events, within the events left
Batches ==
    {<<>>} \cup {<<e>> : e \in source.of}
           \cup {<<e1, e2>> : e1 \in source.of, e2 \in source.of}

\* the item the unfold yields for a poll: the sessions, or the error
PollResult(ok) == IF ok THEN "ok" ELSE "err"

\* a mutant of Poll: an Err of the media server ends the stream of updates
Poll_error_ends_stream ==
    /\ run.pc = "running"
    /\ run.slept
    /\ \E ok \in BOOLEAN, batch \in Batches :
          /\ Len(batch) <= source.left
          /\ ~ ok => batch = <<>>
          /\ run' = [run EXCEPT !.pc = IF ok THEN "running" ELSE "ended",
                                !.polls = @ + 1,
                                !.results = Append(@, PollResult(ok)),
                                !.batch = batch,
                                !.delay = run.interval,
                                !.slept = FALSE]
          /\ source' = [source EXCEPT !.left = @ - Len(batch)]
    /\ UNCHANGED <<chan, tx_open, fut, recvd, exclude_tag, prefetch_num,
                   request_seasons, rt>>
    /\ UNCHANGED <<seen_vars, window_vars, pvr_vars>>

\* a mutant of Poll: the delay of the unfold stays what it was
Poll_keeps_delay ==
    /\ run.pc = "running"
    /\ run.slept
    /\ \E ok \in BOOLEAN, batch \in Batches :
          /\ Len(batch) <= source.left
          /\ ~ ok => batch = <<>>
          /\ run' = [run EXCEPT !.polls = @ + 1,
                                !.results = Append(@, PollResult(ok)),
                                !.batch = batch,
                                !.slept = FALSE]
          /\ source' = [source EXCEPT !.left = @ - Len(batch)]
    /\ UNCHANGED <<chan, tx_open, fut, recvd, exclude_tag, prefetch_num,
                   request_seasons, rt>>
    /\ UNCHANGED <<seen_vars, window_vars, pvr_vars>>

\* now_playing_updates, lines 78-82: the media server has answered and the
\* unfold yields the sessions or the Err; an Err is logged and removed from
\* the stream (run(), lines 186-187), so it leaves no event to forward; the
\* next iteration sleeps for the interval
Poll ==
    /\ run.pc = "running"
    /\ run.slept
    /\ \E ok \in BOOLEAN, batch \in Batches :
          /\ Len(batch) <= source.left
          /\ ~ ok => batch = <<>>
          /\ run' = [run EXCEPT !.polls = @ + 1,
                                !.results = Append(@, PollResult(ok)),
                                !.batch = batch,
                                !.delay = run.interval,
                                !.slept = FALSE]
          /\ source' = [source EXCEPT !.left = @ - Len(batch)]
    /\ UNCHANGED <<chan, tx_open, fut, recvd, exclude_tag, prefetch_num,
                   request_seasons, rt>>
    /\ UNCHANGED <<seen_vars, window_vars, pvr_vars>>

\* a mutant of Forward: the channel takes every event at once
Forward_unbounded ==
    /\ run.pc = "running"
    /\ run.batch # <<>>
    /\ tx_open
    /\ chan' = Append(chan, Head(run.batch))
    /\ run' = [run EXCEPT !.batch = Tail(@), !.sent = @ + 1]
    /\ UNCHANGED <<tx_open, source, fut, recvd, exclude_tag, prefetch_num,
                   request_seasons, rt>>
    /\ UNCHANGED <<seen_vars, window_vars, pvr_vars>>

\* run(), lines 183-192: forward() puts the next event of the answer into the
\* channel as soon as the channel has room
Forward ==
    /\ run.pc = "running"
    /\ run.batch # <<>>
    /\ tx_open
    /\ Len(chan) < CHANNEL_CAPACITY
    /\ chan' = Append(chan, Head(run.batch))
    /\ run' = [run EXCEPT !.batch = Tail(@), !.sent = @ + 1]
    /\ UNCHANGED <<tx_open, source, fut, recvd, exclude_tag, prefetch_num,
                   request_seasons, rt>>
    /\ UNCHANGED <<seen_vars, window_vars, pvr_vars>>

-----------------------------------------------------------------------------
(* The Seen cache on its own, driven as its unit tests drive it *)

NoWindow == [season_start |-> 0, episode_start |-> 0, num |-> 0, episodes |-> <<>>]

InitSeenVars ==
    /\ now = 0
    /\ nticks = 0
    /\ seen = {}
    /\ last = NoCall
    /\ track = NoTrack

InitWindowVars ==
    /\ w_in = NoWindow
    /\ w_out = <<>>
    /\ w_done = FALSE

\* no Actor and no Sonarr
InitActorVars ==
    /\ chan = <<>>
    /\ tx_open = FALSE
    /\ source = [of |-> {}, left |-> 0]
    /\ fut = Idle
    /\ recvd = <<>>
    /\ exclude_tag = None
    /\ prefetch_num = 0
    /\ request_seasons = FALSE
    /\ pvr_series = <<>>
    /\ pvr_tags = <<>>
    /\ pvr_episodes = <<>>

\* run() is not modelled
InitRunVars ==
    /\ rt = NoRetry
    /\ run = NoRun

InitSeen ==
    /\ InitSeenVars
    /\ InitWindowVars
    /\ InitActorVars
    /\ InitRunVars

Once ==
    \E np \in NowPlaying :
        /\ SeenOnce(np)
        /\ UNCHANGED <<now, nticks, track>>
        /\ UNCHANGED <<window_vars, actor_vars, pvr_vars, run_vars>>

NextSeen ==
    \/ Once
    \/ Tick

SpecSeen == InitSeen /\ [][NextSeen]_vars

\* the cache driven by the events that reach the Actor, the call before the
\* latest remembered
OnceAgain ==
    \E np \in Events :
        /\ SeenOnceAgain(np)
        /\ UNCHANGED <<now, nticks>>
        /\ UNCHANGED <<window_vars, actor_vars, pvr_vars, run_vars>>

NextRepeat ==
    \/ OnceAgain
    \/ Tick

SpecRepeat == InitSeen /\ [][NextRepeat]_vars

-----------------------------------------------------------------------------
(* The window fetch on its own: Client::episodes over every short catalogue *)

WSeasonSet == {0, 1, 2, 3}

WEpisodeSet == {1, 2, 8}

WPairs == WSeasonSet \X WEpisodeSet

\* the catalogues of at most MaxCat episodes, in the order the PVR lists them
WCatalogues ==
    UNION {[1..n -> WPairs] : n \in 0..MaxCat}

\* the episodes of a catalogue: the id is the place in the listing
WEpisodes(cat) ==
    [i \in 1..Len(cat) |-> EpisodeResource(i, cat[i][1], cat[i][2], FALSE)]

InitWindow ==
    /\ InitSeenVars
    /\ InitActorVars
    /\ InitRunVars
    /\ \E cat \in WCatalogues, ss \in {0, 1}, es \in WEpisodeSet, n \in 0..MaxNum :
           w_in = [season_start |-> ss, episode_start |-> es, num |-> n,
                   episodes |-> WEpisodes(cat)]
    /\ w_out = <<>>
    /\ w_done = FALSE

Window ==
    /\ ~ w_done
    /\ w_out' = Client_episodes(w_in.season_start, w_in.episode_start,
                                w_in.num, w_in.episodes)
    /\ w_done' = TRUE
    /\ UNCHANGED <<w_in>>
    /\ UNCHANGED <<seen_vars, actor_vars, pvr_vars, run_vars>>

NextWindow == Window

SpecWindow == InitWindow /\ [][NextWindow]_vars

-----------------------------------------------------------------------------
(* The Actor fed by the source of events, against a Sonarr *)

\* the series the events are about, as Sonarr lists it
TheSeries(monitored, monitor_new_items, seasons, tags) ==
    SeriesResource(10, Some("A"), 1, monitored, monitor_new_items, seasons, tags)

\* a series no event is about
OtherSeries ==
    SeriesResource(20, Some("B"), 2, TRUE, Some("all"),
                   <<SeasonResource(1, TRUE)>>, None)

SeasonLists ==
    {<<>>}
    \cup {<<SeasonResource(1, m)>> : m \in BOOLEAN}
    \cup {<<SeasonResource(1, m1), SeasonResource(2, m2)>> :
            m1 \in BOOLEAN, m2 \in BOOLEAN}

\* a series with the external id of the events and no title
Untitled ==
    SeriesResource(30, None, 1, TRUE, Some("all"), <<SeasonResource(1, TRUE)>>,
                   None)

\* the listings of Sonarr: without the series, with a series that has its
\* external id alone, or with the series
Listings(tags) ==
    {<<OtherSeries>>, <<OtherSeries, Untitled>>}
    \cup {<<OtherSeries, TheSeries(m, i, l, tags)>> :
            m \in BOOLEAN, i \in {Some("all"), Some("none")}, l \in SeasonLists}

\* a listing with the series unmonitored, its first season monitored and its
\* second not
TwoSeasonListing(tags) ==
    <<OtherSeries,
      TheSeries(FALSE, Some("all"),
                <<SeasonResource(1, TRUE), SeasonResource(2, FALSE)>>, tags)>>

\* the episodes Sonarr may know, in the order it lists them
AllEpisodes == <<<<1, 1>>, <<1, 2>>, <<1, 3>>, <<2, 1>>>>

\* the first n of them, those at the places in `on_disk` with a file
Catalogue(n, on_disk) ==
    [i \in 1..n |-> EpisodeResource(i, AllEpisodes[i][1], AllEpisodes[i][2],
                                    i \in on_disk)]

Catalogues ==
    {Catalogue(n, on_disk) :
        n \in 0..Len(AllEpisodes), on_disk \in {{}, {2}, {2, 3}}}

\* the exclusion tag of the Actor, the tags of Sonarr and those of the series:
\* no exclusion, a label Sonarr does not know, an excluded series, and a
\* series without the tag
TagSetups ==
    {[exclude_tag |-> None, tags |-> <<>>, series_tags |-> None],
     [exclude_tag |-> Some(Tag_Label("x")), tags |-> <<>>,
      series_tags |-> Some(<<7>>)],
     [exclude_tag |-> Some(Tag_Label("x")),
      tags |-> <<TagResource(7, Some("x"))>>, series_tags |-> Some(<<7>>)],
     [exclude_tag |-> Some(Tag_Label("x")),
      tags |-> <<TagResource(7, Some("x"))>>, series_tags |-> Some(<<>>)]}

InitActor ==
    /\ chan = <<>>
    /\ tx_open = TRUE
    /\ fut = Idle
    /\ recvd = <<>>
    /\ request_seasons \in BOOLEAN

\* the Actor, with an exclusion tag, over a run of events
Init ==
    /\ InitSeenVars
    /\ InitWindowVars
    /\ InitRunVars
    /\ InitActor
    /\ prefetch_num = MaxNum
    /\ source = [of |-> {np \in Events : np.series = Tvdb(1)}, left |-> MaxEvents]
    /\ \E setup \in {t \in TagSetups : t.exclude_tag # None} :
          /\ exclude_tag = setup.exclude_tag
          /\ pvr_tags = setup.tags
          /\ pvr_series = TwoSeasonListing(setup.series_tags)
    /\ pvr_episodes = Catalogue(Len(AllEpisodes), {})

\* the Actor over one event, against every Sonarr
InitPrefetch ==
    /\ InitSeenVars
    /\ InitWindowVars
    /\ InitRunVars
    /\ InitActor
    /\ prefetch_num \in 0..MaxNum
    /\ source = [of |-> Events, left |-> 1]
    /\ \E setup \in TagSetups :
          /\ exclude_tag = setup.exclude_tag
          /\ pvr_tags = setup.tags
          /\ pvr_series \in Listings(setup.series_tags)
    /\ pvr_episodes \in Catalogues

Next ==
    \/ Send
    \/ Close
    \/ Recv
    \/ SeriesResp
    \/ TagResp
    \/ EpisodesResp
    \/ PutSeriesResp
    \/ MonitorEpisodesResp
    \/ SearchEpisodesResp
    \/ SsEpisodesResp
    \/ SsMonitorResp
    \/ SsCommandResp
    \/ Loop
    \/ Return
    \/ Tick

Spec == Init /\ [][Next]_vars

NextPrefetch ==
    \/ Send
    \/ Recv
    \/ SeriesResp
    \/ TagResp
    \/ EpisodesResp
    \/ PutSeriesResp
    \/ MonitorEpisodesResp
    \/ SearchEpisodesResp
    \/ SsEpisodesResp
    \/ SsMonitorResp
    \/ SsCommandResp
    \/ Loop

SpecPrefetch == InitPrefetch /\ [][NextPrefetch]_vars

\* Client::search_season called for one season of a series, as Sonarr lists it
InitSearchSeason ==
    /\ InitSeenVars
    /\ InitWindowVars
    /\ InitRunVars
    /\ chan = <<>>
    /\ tx_open = FALSE
    /\ source = [of |-> {}, left |-> 0]
    /\ recvd = <<>>
    /\ exclude_tag = None
    /\ prefetch_num = 0
    /\ request_seasons = TRUE
    /\ pvr_tags = <<>>
    /\ pvr_episodes \in Catalogues
    /\ \E m \in BOOLEAN, i \in {Some("all"), Some("none")}, l \in SeasonLists,
          season_num \in {1, 2} :
          LET series == TheSeries(m, i, l, None)
          IN  /\ pvr_series = <<OtherSeries, series>>
              /\ fut = SeasonLoop([Idle EXCEPT !.series = Some(series),
                                               !.fetched = Some(series),
                                               !.season_numbers = <<season_num>>])

NextSearchSeason ==
    \/ SsEpisodesResp
    \/ SsMonitorResp
    \/ SsPutResp
    \/ SsCommandResp

SpecSearchSeason == InitSearchSeason /\ [][NextSearchSeason]_vars


-----------------------------------------------------------------------------
(* Actor::process to its end: the runs of Spec without the clock, and the  *)
(* Actor never starved: tokio polls it whenever a message or an answer is  *)
(* there for it, and every request to Sonarr is answered or fails          *)

ActorStep ==
    \/ Recv
    \/ SeriesResp
    \/ TagResp
    \/ EpisodesResp
    \/ PutSeriesResp
    \/ MonitorEpisodesResp
    \/ SearchEpisodesResp
    \/ SsEpisodesResp
    \/ SsMonitorResp
    \/ SsCommandResp
    \/ Loop
    \/ Return

NextProcess ==
    \/ Send
    \/ Close
    \/ Recv
    \/ SeriesResp
    \/ TagResp
    \/ EpisodesResp
    \/ PutSeriesResp
    \/ MonitorEpisodesResp
    \/ SearchEpisodesResp
    \/ SsEpisodesResp
    \/ SsMonitorResp
    \/ SsCommandResp
    \/ Loop
    \/ Return

SpecProcess == Init /\ [][NextProcess]_vars /\ WF_vars(ActorStep)

-----------------------------------------------------------------------------
(* util::retry on its own, as its unit tests drive it *)

InitRetry ==
    /\ InitSeenVars
    /\ InitWindowVars
    /\ InitActorVars
    /\ run = NoRun
    /\ \E retries \in 0..MaxRetries : rt = retry(retries)

NextRetry ==
    \/ RetrySleep
    \/ RetryCall

SpecRetry == InitRetry /\ [][NextRetry]_vars

-----------------------------------------------------------------------------
(* main::run from its start: the probes, the poller and the Actor (without *)
(* an exclusion tag, searching episodes)                                   *)

IntervalSet == {1, 60}

InitRun ==
    /\ InitSeenVars
    /\ InitWindowVars
    /\ InitActor
    /\ request_seasons = FALSE
    /\ exclude_tag = None
    /\ prefetch_num = MaxNum
    /\ source = [of |-> {np \in Events : np.series = Tvdb(1) /\ np.season = 1},
                 left |-> MaxEvents]
    /\ pvr_tags = <<>>
    /\ pvr_series = TwoSeasonListing(None)
    /\ pvr_episodes = Catalogue(Len(AllEpisodes), {})
    /\ \E retries \in 0..MaxRetries, interval \in IntervalSet :
          /\ run = Run(retries, interval)
          /\ rt = retry(retries)

NextRun ==
    \/ RetrySleep
    \/ RetryCall
    \/ Probed
    \/ PollSleep
    \/ Poll
    \/ Forward
    \/ Recv
    \/ SeriesResp
    \/ EpisodesResp
    \/ PutSeriesResp
    \/ MonitorEpisodesResp
    \/ SearchEpisodesResp
    \/ Loop

SpecRun == InitRun /\ [][NextRun]_vars

-----------------------------------------------------------------------------
(* Properties of the Actor (Spec, SpecPrefetch) *)

\* how often a request was made in the cycle of the current event
Requests(op) ==
    Cardinality({i \in 1..Len(fut.log) : fut.log[i].op = op})

\* the message being processed is the one the previous rx.recv() yielded, and
\* the entry the previous one recorded is still retained
RepeatedDelivery ==
    /\ fut.pc \notin {"recv", "returned"}
    /\ Len(recvd) = 2
    /\ recvd[2].np = recvd[1].np
    /\ recvd[2].at - recvd[1].at <= RETAIN_DURATION

\* C1: when the identical event is delivered twice in a row (the second while
\* the entry of the first is retained), the second delivery is dropped at the
\* gate and makes no request at all; a delivery that passes the gate lists the
\* series exactly once, so the two deliveries list the series once.
C1_RepeatDropped ==
    /\ RepeatedDelivery =>
          /\ fut.pc = "finished"
          /\ fut.outcome = "skipped"
          /\ fut.log = <<>>
    /\ (fut.pc = "finished" /\ fut.outcome # "skipped") =>
          Requests("GET series") = 1
    /\ Requests("GET series") <= 1

\* the second of two identical deliveries was dropped without a request
C1_Witness ==
    /\ RepeatedDelivery
    /\ fut.outcome = "skipped"
    /\ fut.log = <<>>
    /\ last.calls = 2
    /\ ~ last.ret

-----------------------------------------------------------------------------
(* Properties of the Seen cache (SpecSeen) *)

\* the call found no entry of its key recorded within the last 7 days
Fresh(call) == call.old = -1 \/ call.at - call.old > RETAIN_DURATION

\* C2: a once(e) that finds no entry of e recorded within the last 7 days
\* returns true, and the once(e) that immediately follows it (no other call
\* and no time in between) returns false.
C2_FirstTrueRepeatFalse ==
    [][ /\ (last'.calls > 0 /\ Fresh(last')) => last'.ret
        /\ ( /\ last.calls > 0 /\ Fresh(last)
             /\ last' # last /\ last'.np = last.np /\ last'.at = last.at )
           => (last.ret /\ ~ last'.ret) ]_vars

C2_Witness ==
    /\ last.calls = 2 /\ ~ last.ret
    /\ last.old = last.at
    /\ now = last.at

\* C3 as stated: a once(e) that returns false leaves the timestamp recorded
\* for e as it was before the call.
C3_HitKeepsTimestamp ==
    (last.calls > 0 /\ ~ last.ret)
        => TouchedOf(seen, KeyOf(last.np)) = last.old

\* C3 as amended: every once(e), a hit included, stamps e's entry with the
\* time of the call, and the call returns true exactly when no entry of e is
\* stored or the stored one (stamped at e's latest observation) is older
\* than 7 days.
C3_HitRefreshes ==
    last.calls > 0 =>
        /\ TouchedOf(seen, KeyOf(last.np)) = last.at
        /\ last.ret <=> Fresh(last)

C3_Witness ==
    /\ last.calls > 0 /\ ~ last.ret
    /\ last.old # -1 /\ last.old < last.at
    /\ TouchedOf(seen, KeyOf(last.np)) = last.at

\* C4: a once(e) that finds e's entry recorded more than 7 days before the
\* call returns true, and the cache it leaves holds no entry older than 7
\* days at the time of the call.
C4_OldEntryUnseen ==
    (last.calls > 0 /\ last.old # -1 /\ last.at - last.old > RETAIN_DURATION)
        => /\ last.ret
           /\ \A e \in seen : last.at - e.touched <= RETAIN_DURATION

C4_Witness ==
    /\ last.calls > 0 /\ last.ret
    /\ last.old # -1 /\ last.at - last.old > RETAIN_DURATION

\* C5 as stated: observing one event never makes once() return false for an
\* event that differs from it in any field. (The first two calls on an empty
\* cache: nothing else can have recorded the second event.)
C5_KeyedByWholeEvent ==
    [][ (last.calls = 1 /\ last'.calls = 2 /\ last'.np # last.np)
            => last'.ret ]_vars

\* C5 as amended: the cache is keyed by series and season; observing one
\* event never makes once() return false for an event of another series or
\* another season.
C5_KeyedBySeriesAndSeason ==
    [][ ( /\ last.calls = 1 /\ last'.calls = 2
          /\ \/ last'.np.series # last.np.series
             \/ last'.np.season # last.np.season )
            => last'.ret ]_vars

C5_Witness ==
    /\ last.calls = 2 /\ last.ret /\ last.old = -1
    /\ Cardinality(seen) = 2
    /\ \A e \in seen : e.touched = last.at

-----------------------------------------------------------------------------
(* Properties of the episode window (SpecWindow) *)

\* the currently-playing position followed by the window, as (season, episode)
WChain ==
    <<[season_number |-> w_in.season_start,
       episode_number |-> w_in.episode_start]>>
    \o [i \in 1..Len(w_out) |->
           [season_number |-> w_out[i].season_number,
            episode_number |-> w_out[i].episode_number]]

NextEpisode(a, b) ==
    b.season_number = a.season_number /\ b.episode_number = a.episode_number + 1

SeasonRollover(a, b) ==
    b.season_number = a.season_number + 1 /\ b.episode_number = 1

DuplicateListing(a, b) ==
    b.season_number = a.season_number /\ b.episode_number = a.episode_number

Contiguous(a, b) ==
    NextEpisode(a, b) \/ SeasonRollover(a, b) \/ DuplicateListing(a, b)

WListed == {w_in.episodes[i] : i \in 1..Len(w_in.episodes)}

WReturned == {w_out[i] : i \in 1..Len(w_out)}

\* C6: from the start episode through the window every adjacent pair is a
\* next episode, a season rollover or a duplicate listing, and the window
\* leaves out no listed episode that lies between two of its members, so
\* nothing behind a gap is returned.
C6_NeverCrossesGap ==
    w_done =>
        /\ \A i \in 1..(Len(WChain) - 1) : Contiguous(WChain[i], WChain[i + 1])
        /\ WReturned \subseteq WListed
        /\ \A i, j \in 1..Len(w_out) : i # j => w_out[i].id # w_out[j].id
        /\ \A x \in WListed :
              (KeyLess(WChain[1], x) /\ KeyLess(x, WChain[Len(WChain)]))
                  => x \in WReturned

\* a gap right behind the start, and behind the gap two entries that are
\* contiguous again
C6_Witness ==
    /\ w_done /\ w_in.num = 2 /\ w_out = <<>>
    /\ \E x, y \in WListed :
          /\ KeyLess(WChain[1], x) /\ ~ Contiguous(WChain[1], x)
          /\ x.id # y.id /\ NextEpisode(x, y)
    /\ \E x \in WListed : DuplicateListing(WChain[1], x)

\* C7: the window holds at most num episodes.
C7_AtMostNum == w_done => Len(w_out) <= w_in.num

\* more contiguous episodes are listed than were asked for
C7_Witness ==
    /\ w_done /\ w_in.num = 1 /\ Len(w_out) = 1
    /\ \E x \in WListed : x \notin WReturned /\ NextEpisode(w_out[1], x)

\* C8: for season_start = 0 the window fetch returns nothing.
C8_SpecialsEmpty == (w_done /\ w_in.season_start = 0) => w_out = <<>>

\* season 0 lists the start episode and its successor
C8_Witness ==
    /\ w_done /\ w_in.season_start = 0 /\ w_in.num > 0 /\ w_out = <<>>
    /\ \E x, y \in WListed :
          /\ DuplicateListing(WChain[1], x)
          /\ NextEpisode(x, y)

\* the start episode is listed once and the listed episode that follows it in
\* (season, episode) order is episode 1 of the next season
RolloverFollows ==
    /\ w_in.season_start # 0
    /\ Cardinality({x \in WListed : DuplicateListing(WChain[1], x)}) = 1
    /\ \E x \in WListed : SeasonRollover(WChain[1], x)
    /\ \A x \in WListed :
          KeyLess(WChain[1], x) =>
              (SeasonRollover(WChain[1], x) \/ \E y \in WListed :
                  SeasonRollover(WChain[1], y) /\ KeyLess(y, x))

\* C9: when episode 1 of the next season follows the start episode in the
\* catalogue, the window (num >= 1) begins with it, and with num >= 2 it goes
\* on to episode 2 of that season when that is listed next; start (1,8) over
\* [(1,8),(2,1),(2,2)] with num = 2 gives [(2,1),(2,2)].
C9_RolloverAccepted ==
    (w_done /\ RolloverFollows /\ w_in.num >= 1) =>
        /\ Len(w_out) >= 1
        /\ SeasonRollover(WChain[1], w_out[1])
        /\ ( /\ w_in.num >= 2
             /\ Cardinality({x \in WListed : SeasonRollover(WChain[1], x)}) = 1
             /\ \E x \in WListed : NextEpisode(w_out[1], x) )
           => (Len(w_out) >= 2 /\ NextEpisode(w_out[1], w_out[2]))

C9_Witness ==
    /\ w_done
    /\ w_in = [season_start |-> 1, episode_start |-> 8, num |-> 2,
               episodes |-> WEpisodes(<< <<1, 8>>, <<2, 1>>, <<2, 2>> >>)]
    /\ w_out = << EpisodeResource(2, 2, 1, FALSE), EpisodeResource(3, 2, 2, FALSE) >>
-----------------------------------------------------------------------------
(* Properties of the monitoring baseline (SpecPrefetch) *)

\* C10: put_series is called for an event only if the record it sends differs
\* from the record fetched from Sonarr in that cycle.
C10_PutOnlyIfChanged ==
    \A i \in 1..Len(fut.log) :
        fut.log[i].op = "PUT series" => fut.log[i].body # fut.fetched

\* the window of the current event has been fetched
WindowIn ==
    \/ fut.pc \in {"put_series", "monitor_episodes", "search_episodes",
                   "ss_episodes", "ss_monitor", "ss_put", "ss_command"}
    \/ Requests("PUT series") > 0
    \/ fut.pc = "finished" /\ fut.outcome = "ok"

\* the series is monitored, its last listed season is, and new items are
BaselineSet(series) ==
    /\ series.monitored
    /\ series.monitor_new_items = Some("all")
    /\ series.seasons # <<>> => series.seasons[Len(series.seasons)].monitored

\* the record Sonarr holds for the series of the event
Persisted == {pvr_series[j] : j \in {j \in 1..Len(pvr_series) :
                                        pvr_series[j].id = fut.fetched[1].id}}

\* C11: whenever the window holds fewer episodes than prefetch_num, the
\* engine persists the series, and the record it persists is monitored, has
\* its last listed season monitored and has monitor_new_items = All.
C11_ShortWindowBaseline ==
    (WindowIn /\ Len(fut.episodes) < prefetch_num) =>
        /\ BaselineSet(fut.series[1])
        /\ fut.pc = "put_series" \/ Requests("PUT series") = 1
        /\ \A i \in 1..Len(fut.log) :
              fut.log[i].op = "PUT series" =>
                 /\ BaselineSet(fut.log[i].body[1])
                 /\ fut.log[i].ok => \A series \in Persisted : BaselineSet(series)

\* one episode of two was returned; the series, unmonitored with its last
\* season unmonitored and new items off, was persisted
C11_Witness ==
    /\ WindowIn
    /\ Len(fut.episodes) = 1
    /\ prefetch_num = 2
    /\ ~ fut.fetched[1].monitored
    /\ fut.fetched[1].monitor_new_items = Some("none")
    /\ Len(fut.fetched[1].seasons) = 2
    /\ ~ fut.fetched[1].seasons[2].monitored
    /\ \E i \in 1..Len(fut.log) : fut.log[i].op = "PUT series" /\ fut.log[i].ok
    /\ \A series \in Persisted : BaselineSet(series)

-----------------------------------------------------------------------------
(* Properties of the two modes (SpecPrefetch) *)

\* the window Sonarr's listing gives for the current event
WindowOfEvent ==
    Client_episodes(fut.np[1].season, fut.np[1].episode, prefetch_num,
                    pvr_episodes)

\* the seasons of the window's episodes that lack a file
MissingSeasons ==
    {WindowOfEvent[i].season_number :
        i \in {i \in 1..Len(WindowOfEvent) : ~ WindowOfEvent[i].has_file}}

\* the places in the log of the SeasonSearch commands for a season
SeasonSearches(season) ==
    {i \in 1..Len(fut.log) :
        fut.log[i].op = "SeasonSearch" /\ fut.log[i].season = season}

\* C12: in season mode search_season is called once for each distinct season
\* among the window's episodes that lack a file, in ascending order, and for
\* no other season; in episode mode it is not called.
C12_OneSearchPerMissingSeason ==
    /\ \A i, j \in 1..Len(fut.season_calls) :
          i < j => fut.season_calls[i] < fut.season_calls[j]
    /\ fut.season_calls # <<>> =>
          /\ request_seasons
          /\ WindowIn
          /\ fut.episodes = WindowOfEvent
          /\ \A i \in 1..Len(fut.season_calls) :
                fut.season_calls[i] \in MissingSeasons
    /\ \A i \in 1..Len(fut.log) :
          fut.log[i].op = "SeasonSearch" =>
             /\ \E j \in 1..Len(fut.season_calls) :
                   fut.season_calls[j] = fut.log[i].season
             /\ Cardinality(SeasonSearches(fut.log[i].season)) = 1
    /\ (request_seasons /\ fut.pc = "finished" /\ fut.outcome = "ok") =>
          {fut.season_calls[i] : i \in 1..Len(fut.season_calls)} = MissingSeasons

\* two seasons were searched, the lower one first
C12_Witness ==
    /\ request_seasons
    /\ fut.pc = "finished"
    /\ fut.outcome = "ok"
    /\ fut.season_calls = <<1, 2>>
    /\ MissingSeasons = {1, 2}
    /\ \E i, j \in 1..Len(fut.log) :
          /\ i < j
          /\ fut.log[i].op = "SeasonSearch" /\ fut.log[i].season = 1
          /\ fut.log[j].op = "SeasonSearch" /\ fut.log[j].season = 2

\* C13: in season mode, when search_season fails for a season, search_season
\* is still called for every season that remains, and the event ends without
\* an error.
C13_FailedSeasonIsolated ==
    fut.failed_seasons # <<>> =>
        /\ fut.outcome # "err"
        /\ fut.pc \in {"ss_episodes", "ss_monitor", "ss_put", "ss_command",
                       "finished"}
        /\ fut.pc = "finished" =>
              /\ fut.outcome = "ok"
              /\ \A season \in MissingSeasons :
                    \E i \in 1..Len(fut.season_calls) :
                        fut.season_calls[i] = season

\* the search of season 1 failed and season 2 was searched all the same
C13_Witness ==
    /\ fut.pc = "finished"
    /\ fut.outcome = "ok"
    /\ fut.failed_seasons = <<1>>
    /\ fut.season_calls = <<1, 2>>
    /\ \E i \in SeasonSearches(2) : fut.log[i].ok
    /\ \A i \in SeasonSearches(1) : ~ fut.log[i].ok

\* the ids of the window's episodes that lack a file, in the window's order
RECURSIVE MissingIds(_)
MissingIds(window) ==
    IF window = <<>> THEN <<>>
    ELSE (IF Head(window).has_file THEN <<>> ELSE <<Head(window).id>>)
         \o MissingIds(Tail(window))

\* the event passed the lookup and exclusion gates and no request but the
\* tag listing failed
NothingFailed ==
    /\ fut.fetched # None
    /\ fut.outcome # "excluded"
    /\ \A i \in 1..Len(fut.log) : fut.log[i].op # "GET tag" => fut.log[i].ok

\* C14: in episode mode an event that passes the gates (and meets no failing
\* request) makes one monitor_episodes call and then one search_episodes
\* call, both with exactly the ids of the window's episodes that lack a file;
\* no event makes more than one of either, or a search without the monitor
\* call before it.
C14_OneMonitorOneSearch ==
    ~ request_seasons =>
        /\ Requests("PUT episode/monitor") <= 1
        /\ Requests("EpisodeSearch") <= 1
        /\ \A i \in 1..Len(fut.log) :
              /\ fut.log[i].op \in {"PUT episode/monitor", "EpisodeSearch"} =>
                    fut.log[i].ids = MissingIds(WindowOfEvent)
              /\ fut.log[i].op = "EpisodeSearch" =>
                    \E j \in 1..(i - 1) :
                        fut.log[j].op = "PUT episode/monitor" /\ fut.log[j].ok
        /\ (fut.pc = "finished" /\ NothingFailed) =>
              /\ fut.outcome = "ok"
              /\ Requests("PUT episode/monitor") = 1
              /\ Requests("EpisodeSearch") = 1

\* of a window of two episodes the one without a file was monitored and
\* searched
C14_Witness ==
    /\ ~ request_seasons
    /\ fut.pc = "finished"
    /\ NothingFailed
    /\ Len(fut.episodes) = 2
    /\ fut.episodes[1].has_file
    /\ \E i, j \in 1..Len(fut.log) :
          /\ i < j
          /\ fut.log[i].op = "PUT episode/monitor"
          /\ fut.log[j].op = "EpisodeSearch"
          /\ fut.log[i].ids = <<fut.episodes[2].id>>
          /\ fut.log[j].ids = <<fut.episodes[2].id>>

-----------------------------------------------------------------------------
(* Properties of Client::search_season (SpecSearchSeason) *)

\* the series is monitored and so is its season of that number
MonitoredWithSeason(series, season_num) ==
    /\ series.monitored
    /\ season_mut(series, season_num) # 0
    /\ series.seasons[season_mut(series, season_num)].monitored

\* C15: search_season sends the SeasonSearch command only when the series and
\* the season are monitored in Sonarr: if either is unmonitored in the record
\* it is given, a PUT of the record with both set monitored has succeeded
\* before the command; once that PUT has failed no command is sent.
C15_SearchOnlyWhenMonitored ==
    \A i \in 1..Len(fut.log) :
        /\ fut.log[i].op = "SeasonSearch" =>
              /\ \A series \in Persisted :
                    MonitoredWithSeason(series, fut.log[i].season)
              /\ ~ MonitoredWithSeason(fut.fetched[1], fut.log[i].season) =>
                    \E j \in 1..(i - 1) :
                        /\ fut.log[j].op = "PUT series"
                        /\ fut.log[j].ok
                        /\ MonitoredWithSeason(fut.log[j].body[1],
                                               fut.log[i].season)
        /\ (fut.log[i].op = "PUT series" /\ ~ fut.log[i].ok) =>
              /\ fut.pc = "finished"
              /\ fut.failed_seasons = <<fut.log[i].season>>
              /\ Requests("SeasonSearch") = 0

\* an unmonitored season of an unmonitored series was PUT and then searched
C15_Witness ==
    /\ ~ fut.fetched[1].monitored
    /\ fut.season_calls = <<2>>
    /\ season_mut(fut.fetched[1], 2) # 0
    /\ ~ MonitoredWithSeason(fut.fetched[1], 2)
    /\ Len(fut.log) = 2
    /\ fut.log[1].op = "PUT series" /\ fut.log[1].ok
    /\ fut.log[2].op = "SeasonSearch"
    /\ \A series \in Persisted : MonitoredWithSeason(series, 2)

-----------------------------------------------------------------------------
(* Properties of the gates (SpecPrefetch, Spec) *)

\* the exclusion tag holds an id and the series found for the event carries it
CarriesExcludeTag ==
    /\ fut.fetched # None
    /\ exclude_tag # None
    /\ exclude_tag[1].kind = "Id"
    /\ fut.fetched[1].tags # None
    /\ \E i \in 1..Len(fut.fetched[1].tags[1]) :
          fut.fetched[1].tags[1][i] = exclude_tag[1].id

\* C16: with the exclusion tag resolved to an id, an event whose series
\* carries that id ends at the exclusion gate: beyond the series listing and
\* the tag listing no request is made for it.
C16_ExcludedSeriesUntouched ==
    CarriesExcludeTag =>
        /\ fut.pc = "finished"
        /\ fut.outcome = "excluded"
        /\ \A i \in 1..Len(fut.log) : fut.log[i].op \in {"GET series", "GET tag"}

\* the tag was resolved and the event ended at the exclusion gate
C16_Witness ==
    /\ CarriesExcludeTag
    /\ fut.outcome = "excluded"
    /\ Len(fut.log) = 2
    /\ fut.log[2].op = "GET tag"
    /\ fut.log[2].ok

\* the exclusion tag holds an id
TagResolved == exclude_tag # None /\ exclude_tag[1].kind = "Id"

\* C17: once the exclusion tag holds an id, the id never changes and no step
\* of any later event lists the tags again.
C17_TagResolvedOnce ==
    [][ TagResolved =>
          /\ exclude_tag' = exclude_tag
          /\ fut'.pc # "tag"
          /\ \A i \in 1..Len(fut'.log) :
                fut'.log[i].op = "GET tag" =>
                   i <= Len(fut.log) /\ fut.log[i] = fut'.log[i] ]_vars

\* behind an event that resolved the tag, a second event passed the exclusion
\* gate without a tag listing
C17_Witness ==
    /\ TagResolved
    /\ Len(recvd) = 2
    /\ recvd[1].outcome = "ok"
    /\ fut.pc = "finished"
    /\ fut.outcome = "ok"
    /\ Requests("GET series") = 1
    /\ Requests("GET tag") = 0

\* an exclusion tag is configured and still holds its label
TagUnresolved == exclude_tag # None /\ exclude_tag[1].kind = "Label"

\* C18: a failed tag resolution is not fatal. Every event that reaches the
\* exclusion gate while the tag holds its label lists the tags (so a failed
\* resolution is tried again at the next such event); when the listing fails
\* or no tag has the label the tag keeps its label, the event is not
\* excluded, and it ends Ok unless another request fails.
C18_FailedResolutionRetried ==
    (TagUnresolved /\ fut.fetched # None) =>
        /\ exclude_tag[1] = Tag_Label("x")
        /\ fut.pc = "tag" \/ Requests("GET tag") = 1
        /\ \A i \in 1..Len(fut.log) :
              fut.log[i].op = "GET tag" =>
                 \/ ~ fut.log[i].ok
                 \/ resolve_tag(pvr_tags, exclude_tag[1].label) = None
        /\ fut.outcome # "excluded"
        /\ (fut.pc = "finished" /\ NothingFailed) => fut.outcome = "ok"

\* the first event was processed with the tag unresolved; the second listed
\* the tags again, found no tag of the label, and was processed too
C18_Witness ==
    /\ TagUnresolved
    /\ Len(recvd) = 2
    /\ recvd[1].outcome = "ok"
    /\ fut.pc = "finished"
    /\ fut.outcome = "ok"
    /\ fut.fetched # None
    /\ \E i \in 1..Len(fut.log) : fut.log[i].op = "GET tag" /\ fut.log[i].ok
    /\ \E i \in 1..Len(fut.log) : fut.log[i].op = "GET episode"

\* no listed series has the external id, or the title, of the current event
NoSeriesMatches ==
    /\ fut.np # None
    /\ fut.np[1].series.kind = "Tvdb" =>
          \A j \in 1..Len(pvr_series) :
              pvr_series[j].tvdb_id # fut.np[1].series.tvdb
    /\ fut.np[1].series.kind = "Title" =>
          \A j \in 1..Len(pvr_series) :
              pvr_series[j].title # Some(fut.np[1].series.title)

\* C19: when no listed series matches the identity of the event, the event
\* ends with an error right behind the series listing: no tag, episode, PUT
\* or command request is made for it.
C19_NoMatchAborts ==
    NoSeriesMatches =>
        /\ fut.fetched = None
        /\ \A i \in 1..Len(fut.log) : fut.log[i].op = "GET series"
        /\ Len(fut.log) <= 1
        /\ fut.pc \in {"series", "finished"}
        /\ Len(fut.log) = 1 => fut.pc = "finished" /\ fut.outcome = "err"

\* an event by title found no series of that title, though one has the
\* external id of the events
C19_Witness ==
    /\ NoSeriesMatches
    /\ fut.np[1].series.kind = "Title"
    /\ pvr_series = <<OtherSeries, Untitled>>
    /\ fut.pc = "finished"
    /\ fut.outcome = "err"
    /\ Len(fut.log) = 1
    /\ fut.log[1].ok

-----------------------------------------------------------------------------
(* Properties of Actor::process (Spec) *)

\* C20: no error of an event ends process(). However an event ends, the next
\* step of the Actor is back at rx.recv() with the queue as it was; the
\* message it then receives is processed from a clean start; and process()
\* returns only when the sender is gone and the queue is empty.
C20_ErrorsNotFatal ==
    [][ /\ (fut.pc = "finished" /\ fut' # fut) =>
              /\ fut' = Idle
              /\ chan' = chan
              /\ UNCHANGED <<seen, exclude_tag, pvr_vars>>
        /\ (fut.pc = "recv" /\ fut'.pc \notin {"recv", "returned"}) =>
              /\ chan # <<>>
              /\ fut'.np = Some(Head(chan))
              /\ fut'.log = <<>>
              /\ \/ fut'.pc = "series"
                 \/ fut'.pc = "finished" /\ fut'.outcome = "skipped"
        /\ (fut'.pc = "returned" /\ fut.pc # "returned") =>
              /\ fut.pc = "recv"
              /\ chan = <<>>
              /\ ~ tx_open ]_vars

\* the first event ended with an error and the second was processed to its
\* end
C20_Witness ==
    /\ Len(recvd) = 2
    /\ recvd[1].outcome = "err"
    /\ fut.pc = "finished"
    /\ fut.outcome = "ok"
    /\ Requests("GET series") = 1
    /\ Requests("GET episode") >= 1
    /\ Len(fut.log) >= 3

-----------------------------------------------------------------------------
(* Properties of Client::now_playing_updates and of run (SpecRun) *)

\* C24: every poll of the media server comes after a sleep of its own; the
\* sleep before the first poll has length zero and the sleep before every
\* later poll has the length of the configured interval.
C24_FirstPollInstant ==
    /\ Len(run.waits) = run.polls + (IF run.slept THEN 1 ELSE 0)
    /\ \A k \in 1..Len(run.waits) :
          run.waits[k] = IF k = 1 THEN 0 ELSE run.interval

\* the media server was polled twice, with an interval of a minute
C24_Witness ==
    /\ run.polls = 2
    /\ run.interval = 60
    /\ run.waits = <<0, 60>>

-----------------------------------------------------------------------------
(* Properties of retry (SpecRetry) *)

\* the first n calls of the retried operation all failed
AllFailed(n) == \A k \in 1..n : rt.calls[k] \in ErrSet

\* C25: retry(retries, f) calls f at most retries + 1 times; no call follows
\* an Ok, which is returned as it is; and when retry returns an Err every
\* call has failed and the Err is that of the last call.
C25_RetryBounded ==
    /\ Len(rt.calls) <= rt.retries + 1
    /\ AllFailed(Len(rt.calls) - 1)
    /\ (rt.calls # <<>> /\ rt.calls[Len(rt.calls)] = "ok") =>
          /\ rt.pc = "done"
          /\ rt.result = Some("ok")
    /\ (rt.pc = "done" /\ rt.result # Some("ok")) =>
          /\ AllFailed(Len(rt.calls))
          /\ rt.result = Some(rt.calls[Len(rt.calls)])
    /\ rt.pc = "done" <=> rt.result # None

\* three retries, all four calls failed, the last with another error than the
\* first
C25_Witness ==
    /\ rt.pc = "done"
    /\ rt.retries = 3
    /\ Len(rt.calls) = 4
    /\ rt.calls[1] = "refused"
    /\ rt.calls[4] = "timeout"
    /\ rt.result = Some("timeout")

RECURSIVE SumSeq(_)
SumSeq(q) == IF q = <<>> THEN 0 ELSE Head(q) + SumSeq(Tail(q))

\* C26: retry does not sleep before the first call; between call i and call
\* i + 1 (i = 1, 2, ...) it sleeps once, for 2^i seconds; so retry(3, f) with
\* an f that always fails returns after 4 calls and 2 + 4 + 8 seconds of
\* sleep.
C26_BackoffDoubles ==
    /\ Len(rt.sleeps) =
          IF rt.pc = "call" THEN Len(rt.calls)
          ELSE IF rt.calls = <<>> THEN 0 ELSE Len(rt.calls) - 1
    /\ \A k \in 1..Len(rt.sleeps) : rt.sleeps[k] = 2 ^ k
    /\ (rt.pc = "done" /\ rt.retries = 3 /\ rt.result # Some("ok")) =>
          /\ Len(rt.calls) = 4
          /\ rt.sleeps = <<2, 4, 8>>
          /\ SumSeq(rt.sleeps) = 14

\* retry(3, f) has returned the last error of an f that failed four times
C26_Witness ==
    /\ rt.pc = "done"
    /\ rt.retries = 3
    /\ rt.result # Some("ok")
    /\ Len(rt.calls) = 4
    /\ SumSeq(rt.sleeps) = 14

-----------------------------------------------------------------------------
(* Properties of run (SpecRun) *)

\* nothing was polled, queued, received or requested
NothingStarted ==
    /\ run.polls = 0
    /\ run.waits = <<>>
    /\ run.batch = <<>>
    /\ chan = <<>>
    /\ fut = Idle
    /\ recvd = <<>>
    /\ seen = {}
    /\ last = NoCall

\* the probe of a server has succeeded
Passed(server) == [server |-> server, result |-> "ok"]

\* C27: Sonarr is probed first and the media server after it; until both
\* probes have succeeded the media server is not polled and no event is
\* queued, received or processed; and run() fails only after a probe failed
\* retries + 1 times in a row, with nothing started then or later.
C27_ProbesFirst ==
    /\ run.pc = "probe_sonarr" => (run.probed = <<>> /\ NothingStarted)
    /\ run.pc = "probe_media_server" =>
          (run.probed = <<Passed("sonarr")>> /\ NothingStarted)
    /\ run.pc = "running" =>
          run.probed = <<Passed("sonarr"), Passed("media_server")>>
    /\ run.pc = "failed" =>
          /\ NothingStarted
          /\ run.probed \in {<<>>, <<Passed("sonarr")>>}
          /\ rt.pc = "done"
          /\ rt.result # Some("ok")
          /\ Len(rt.calls) = run.connection_retries + 1
          /\ AllFailed(Len(rt.calls))

\* Sonarr answered the probe, the media server failed it twice: run() ended
C27_Witness ==
    /\ run.pc = "failed"
    /\ run.probed = <<Passed("sonarr")>>
    /\ run.connection_retries = 1
    /\ Len(rt.calls) = 2
    /\ fut = Idle

-----------------------------------------------------------------------------
(* Properties of the channel and of Actor::process (Spec, SpecProcess) *)

\* the Actor is between two awaits of prefetch()
Busy == fut.pc \notin {"recv", "finished", "returned"}

\* C21: a message leaves the queue only while the Actor waits in rx.recv()
\* with nothing left of the previous event, and it is the event whose
\* processing then starts; every request is added to the requests of that
\* one event, the event received last, until prefetch() has returned.
C21_OneEventAtATime ==
    [][ /\ Len(chan') < Len(chan) =>
              /\ fut = Idle
              /\ chan' = Tail(chan)
              /\ fut'.np = Some(Head(chan))
              /\ fut'.log = <<>>
        /\ (fut'.log # fut.log /\ fut'.log # <<>>) =>
              /\ Busy
              /\ chan' = chan
              /\ recvd' = recvd
              /\ fut'.np = fut.np
              /\ fut.np = Some(recvd[Len(recvd)].np)
              /\ Len(fut'.log) = Len(fut.log) + 1
              /\ SubSeq(fut'.log, 1, Len(fut.log)) = fut.log ]_vars

\* the next event is queued while requests of the current one are under way
C21_Witness ==
    /\ Busy
    /\ fut.log # <<>>
    /\ chan # <<>>
    /\ Len(recvd) = 1

\* C22: the channel has capacity 1: it never holds more than one event; an
\* event is put into it only when the previous one was taken out; and while
\* an event waits for room in the channel the media server is not polled
\* again.
C22_ChannelBackpressure ==
    /\ CHANNEL_CAPACITY = 1
    /\ [](Len(chan) <= 1)
    /\ [][ /\ Len(chan') > Len(chan) =>
                 /\ chan = <<>>
                 /\ run.batch # <<>>
                 /\ chan' = <<Head(run.batch)>>
           /\ (run'.polls # run.polls \/ run'.waits # run.waits) =>
                 run.batch = <<>> ]_vars

\* one event is queued and the next of the same answer waits for room in the
\* channel, and the poller, with polls left to make, waits with it
C22_Witness ==
    /\ Len(chan) = 1
    /\ run.batch # <<>>
    /\ ~ run.slept
    /\ run.polls < MaxPolls

-----------------------------------------------------------------------------
(* Further properties of the Seen cache (SpecSeen, Spec) *)

\* the call before the latest was for the same series and season
SameKey ==
    /\ track.prev.calls > 0
    /\ KeyOf(track.prev.np) = KeyOf(last.np)

\* C28: when once(e) has returned false at time t, the next call once(e) made
\* up to 7 days after t returns false as well and finds the entry stamped t,
\* however long ago e was first recorded.
C28_RepeatRefreshes ==
    ( /\ SameKey
      /\ ~ track.prev.ret
      /\ last.at - track.prev.at <= RETAIN_DURATION )
        => /\ ~ last.ret
           /\ last.old = track.prev.at

\* a third call for e returned false 7 days after the second, 14 days after
\* the first
C28_Witness ==
    /\ SameKey
    /\ ~ track.prev.ret
    /\ ~ last.ret
    /\ track.first_at = 0
    /\ track.prev.at = RETAIN_DURATION
    /\ last.at = 2 * RETAIN_DURATION

\* C29: when once() is called for an event and next, within 7 days, for an
\* event of the same series and season with another episode number, the
\* second call returns false, and the cache holds one entry for the two.
C29_EpisodeIgnored ==
    ( /\ SameKey
      /\ track.prev.np.episode # last.np.episode
      /\ last.at - track.prev.at <= RETAIN_DURATION )
        => /\ ~ last.ret
           /\ Cardinality({e \in seen : e.season = KeyOf(last.np)}) = 1

\* the first call recorded episode 1, the second, for episode 2, found it
C29_Witness ==
    /\ SameKey
    /\ track.prev.calls = 1
    /\ track.prev.ret
    /\ track.prev.np.episode = 1
    /\ last.np.episode = 2
    /\ ~ last.ret
    /\ Cardinality(seen) = 1

\* the message received last is for the series and season of the one before,
\* which ended with an Err, and came within 7 days of it
RepeatAfterError ==
    /\ Len(recvd) = 2
    /\ recvd[1].outcome = "err"
    /\ KeyOf(recvd[2].np) = KeyOf(recvd[1].np)
    /\ recvd[2].at - recvd[1].at <= RETAIN_DURATION

\* C30: from the moment prefetch() has an event, before its first request,
\* the cache holds the entry of the event, stamped with the time it was
\* received; and an event repeated within 7 days of one that ended with an
\* Err is dropped at the gate without a request.
C30_FailedEventSuppressed ==
    /\ fut.np # None =>
          /\ last.np = fut.np[1]
          /\ Entry_new(fut.np[1].series, fut.np[1].season,
                       recvd[Len(recvd)].at) \in seen
    /\ RepeatAfterError =>
          /\ recvd[2].outcome \in {"none", "skipped"}
          /\ ~ last.ret
          /\ fut.log = <<>>
          /\ fut.np # None => (fut.pc = "finished" /\ fut.outcome = "skipped")

\* the event failed, came again a second later and was dropped
C30_Witness ==
    /\ RepeatAfterError
    /\ recvd[2].np = recvd[1].np
    /\ recvd[2].at = recvd[1].at + 1
    /\ recvd[2].outcome = "skipped"
    /\ fut = Idle

-----------------------------------------------------------------------------
(* The retention boundary (SpecSeen) *)

\* C31: a once(e) that finds e's entry recorded exactly 7 days before returns
\* false; the call keeps every entry of another key that is at most 7 days
\* old and drops every entry that is older.
C31_BoundaryRetained ==
    [][ last' # last =>
          /\ (last'.old # -1 /\ last'.at - last'.old = RETAIN_DURATION)
                => ~ last'.ret
          /\ \A e \in seen :
                (now - e.touched <= RETAIN_DURATION
                    /\ e.season # KeyOf(last'.np)) => e \in seen'
          /\ \A e \in seen :
                now - e.touched > RETAIN_DURATION => e \notin seen' ]_vars

\* the call found its entry at exactly 7 days, and an entry of another key of
\* the same age is still there
C31_Witness ==
    /\ last.calls > 0
    /\ last.old # -1
    /\ last.at - last.old = RETAIN_DURATION
    /\ ~ last.ret
    /\ \E e \in seen : e.season # KeyOf(last.np) /\ e.touched = last.old

-----------------------------------------------------------------------------
(* Further properties of the episode window (SpecWindow) *)

\* where the catalogue lists the currently-playing position
StartListings ==
    {i \in 1..Len(w_in.episodes) :
        DuplicateListing(WChain[1], w_in.episodes[i])}

\* the first of them
FirstStartListing ==
    w_in.episodes[CHOOSE i \in StartListings : \A j \in StartListings : i <= j]

\* C32 as stated: every episode of the window comes strictly after the
\* currently-playing position in (season, episode) order.
C32_StrictlyAfterStart ==
    w_done => \A i \in 1..Len(w_out) : KeyLess(WChain[1], w_out[i])

\* C32 as amended: no episode of the window comes before the currently-playing
\* position; the listing the walk starts from, the first one of that position,
\* is never part of the window; and the window holds an episode at that
\* position only when the catalogue lists the position more than once.
C32_AtOrAfterStart ==
    w_done =>
        /\ \A i \in 1..Len(w_out) : ~ KeyLess(w_out[i], WChain[1])
        /\ StartListings # {} => FirstStartListing \notin WReturned
        /\ \A i \in 1..Len(w_out) :
              DuplicateListing(WChain[1], w_out[i])
                  => Cardinality(StartListings) >= 2

\* the currently-playing position is listed twice: its second listing opens
\* the window, the next episode follows
C32_Witness ==
    /\ w_done
    /\ Len(w_out) = 2
    /\ Cardinality(StartListings) = 2
    /\ DuplicateListing(WChain[1], w_out[1])
    /\ NextEpisode(w_out[1], w_out[2])

\* the limit ended the walk before it came to the listing x: the window is
\* full and x is not before its last member
CutByLimit(x) ==
    /\ Len(w_out) = w_in.num
    /\ ~ KeyLess(x, w_out[Len(w_out)])

\* C33: every listing of the position of a window member is in the window as
\* well (but for the listing the walk started from), and so is a listed next
\* episode of a member; the only listings left out are those the limit cuts
\* off, at or behind the position of the last member, and the window,
\* duplicates counted one by one, holds at most num listings.
C33_DuplicatesKept ==
    w_done =>
        /\ Len(w_out) <= w_in.num
        /\ \A i \in 1..Len(w_out), x \in WListed :
              /\ (DuplicateListing(w_out[i], x) /\ x # FirstStartListing)
                    => (x \in WReturned \/ CutByLimit(x))
              /\ NextEpisode(w_out[i], x)
                    => (x \in WReturned \/ CutByLimit(x))

\* the next episode is listed twice and both listings are returned
C33_Witness ==
    /\ w_done
    /\ w_in.num = 2
    /\ Len(w_out) = 2
    /\ NextEpisode(WChain[1], w_out[1])
    /\ DuplicateListing(w_out[1], w_out[2])
    /\ w_out[1].id # w_out[2].id

-----------------------------------------------------------------------------
(* Further properties of Actor::prefetch (SpecPrefetch) *)

\* request i of the event is the PUT of the series made by prefetch() itself
EnginePut(i) == fut.log[i].op = "PUT series" /\ fut.log[i].season = 0

\* request i of the event sets episodes monitored or is a search command
MonitorOrSearch(i) ==
    fut.log[i].op \in {"PUT episode/monitor", "EpisodeSearch", "SeasonSearch"}

\* request i failed, nothing was requested after it and the event ended as Err
EndedTheEvent(i) ==
    /\ ~ fut.log[i].ok
    /\ i = Len(fut.log)
    /\ fut.pc = "finished"
    /\ fut.outcome = "err"

\* C34: the PUT of the series by prefetch() is made at most once per event,
\* has succeeded before any request that sets episodes monitored or starts a
\* search is made, and ends the event when it fails; without request_seasons
\* a failed monitor_episodes or search_episodes ends the event as well, and
\* EpisodeSearch is sent only after monitor_episodes has succeeded.
C34_PutBeforeSearch ==
    /\ \A i, j \in 1..Len(fut.log) :
          /\ (EnginePut(i) /\ EnginePut(j)) => i = j
          /\ (EnginePut(i) /\ MonitorOrSearch(j)) => (i < j /\ fut.log[i].ok)
    /\ \A i \in 1..Len(fut.log) :
          (EnginePut(i) /\ ~ fut.log[i].ok) => EndedTheEvent(i)
    /\ ~ request_seasons =>
          /\ \A i \in 1..Len(fut.log) :
                (MonitorOrSearch(i) /\ ~ fut.log[i].ok) => EndedTheEvent(i)
          /\ \A i, j \in 1..Len(fut.log) :
                ( /\ fut.log[i].op = "PUT episode/monitor"
                  /\ fut.log[j].op = "EpisodeSearch" )
                    => (i < j /\ fut.log[i].ok)

\* the series was PUT, monitor_episodes failed, and no search was sent
C34_Witness ==
    /\ ~ request_seasons
    /\ fut.pc = "finished"
    /\ fut.outcome = "err"
    /\ \E i \in 1..Len(fut.log) : EnginePut(i) /\ fut.log[i].ok
    /\ fut.log[Len(fut.log)].op = "PUT episode/monitor"
    /\ ~ fut.log[Len(fut.log)].ok
    /\ Requests("EpisodeSearch") = 0

\* the seasons of the fetched window's episodes that lack a file
MissingInWindow ==
    {fut.episodes[i].season_number :
        i \in {i \in 1..Len(fut.episodes) : ~ fut.episodes[i].has_file}}

\* the window of the event was insufficient
ShortWindow == Len(fut.episodes) < prefetch_num

\* the record b differs from the fetched record f in nothing but the flags
\* the engine may set
OnlyEngineFlags(b, f) ==
    /\ b.id = f.id
    /\ b.title = f.title
    /\ b.tvdb_id = f.tvdb_id
    /\ b.tags = f.tags
    /\ b.monitored
    /\ b.monitor_new_items # f.monitor_new_items =>
          ShortWindow /\ b.monitor_new_items = Some("all")
    /\ Len(b.seasons) = Len(f.seasons)
    /\ \A k \in 1..Len(f.seasons) :
          /\ b.seasons[k].season_number = f.seasons[k].season_number
          /\ b.seasons[k].monitored # f.seasons[k].monitored =>
                /\ b.seasons[k].monitored
                /\ \/ ShortWindow /\ k = Len(f.seasons)
                   \/ /\ request_seasons
                      /\ f.seasons[k].season_number \in MissingInWindow

\* C35: the series record the engine PUTs differs from the record fetched in
\* that cycle only in the series monitored flag, the monitored flags of the
\* seasons that contain missing window episodes (season mode only) and, when
\* the window was insufficient, the last season's monitored flag and
\* monitor_new_items; every other season flag and every other field is
\* written back as fetched.
C35_PutFrame ==
    \A i \in 1..Len(fut.log) :
        EnginePut(i) => OnlyEngineFlags(fut.log[i].body[1], fut.fetched[1])

\* season mode, a full window: the engine PUT a record in which one season
\* with a missing window episode became monitored while another season stayed
\* unmonitored and monitor_new_items stayed as fetched
C35_Witness ==
    /\ request_seasons
    /\ ~ ShortWindow
    /\ fut.fetched # None
    /\ fut.fetched[1].monitor_new_items = Some("none")
    /\ \E i \in 1..Len(fut.log) :
          /\ EnginePut(i)
          /\ fut.log[i].ok
          /\ fut.log[i].body[1].monitor_new_items = Some("none")
          /\ \E k, l \in 1..Len(fut.fetched[1].seasons) :
                /\ ~ fut.fetched[1].seasons[k].monitored
                /\ fut.log[i].body[1].seasons[k].monitored
                /\ ~ fut.fetched[1].seasons[l].monitored
                /\ ~ fut.log[i].body[1].seasons[l].monitored

\* the current event is one of season 0 and episodes are to be prefetched
SpecialsEvent ==
    /\ fut.np # None
    /\ fut.np[1].season = 0
    /\ prefetch_num > 0

\* C36: for an event in season 0 (with prefetch_num > 0) no episode listing is
\* fetched and no season search is made, yet the empty window counts as
\* insufficient: once the series is found and not excluded, the engine PUTs
\* it with monitored = true, its last listed season monitored and
\* monitor_new_items = All.
C36_SpecialsBaselineOnly ==
    SpecialsEvent =>
        /\ fut.pc \notin {"episodes", "ss_episodes", "ss_monitor", "ss_put",
                          "ss_command"}
        /\ Requests("GET episode") = 0
        /\ Requests("SeasonSearch") = 0
        /\ fut.season_calls = <<>>
        /\ WindowIn =>
              /\ fut.episodes = <<>>
              /\ BaselineSet(fut.series[1])
              /\ fut.pc = "put_series" \/ Requests("PUT series") = 1
              /\ \A i \in 1..Len(fut.log) :
                    fut.log[i].op = "PUT series" =>
                       /\ EnginePut(i)
                       /\ BaselineSet(fut.log[i].body[1])
        /\ (fut.pc = "finished" /\ fut.fetched # None
               /\ fut.outcome # "excluded") =>
              Requests("PUT series") = 1

\* an event of season 0 in season mode ended well: the series, unmonitored
\* with two unmonitored seasons and new items off, was PUT with the baseline
\* and that was the only request after the series listing
C36_Witness ==
    /\ SpecialsEvent
    /\ request_seasons
    /\ fut.pc = "finished"
    /\ fut.outcome = "ok"
    /\ ~ fut.fetched[1].monitored
    /\ fut.fetched[1].monitor_new_items = Some("none")
    /\ Len(fut.fetched[1].seasons) = 2
    /\ ~ fut.fetched[1].seasons[2].monitored
    /\ fut.log[Len(fut.log)].op = "PUT series"
    /\ fut.log[Len(fut.log)].ok
    /\ BaselineSet(fut.log[Len(fut.log)].body[1])
    /\ ~ fut.log[Len(fut.log)].body[1].seasons[1].monitored
    /\ Requests("GET episode") = 0

-----------------------------------------------------------------------------
(* Further properties of Client::search_season (SpecSearchSeason) *)

\* search_season() was called for a season marked monitored in the record given
GivenSeasonMonitored ==
    /\ fut.season_calls # <<>>
    /\ season_mut(fut.fetched[1], fut.season_calls[1]) # 0
    /\ fut.fetched[1].seasons[season_mut(fut.fetched[1],
                                         fut.season_calls[1])].monitored

\* the episodes Sonarr lists for the season search_season() was called for
EpisodesOfSeason == season_episodes(pvr_episodes, fut.season_calls[1])

\* C37: when search_season is called for a season already marked monitored in
\* the given record, it sets all episodes of that season monitored (when the
\* season has any) before it sends SeasonSearch; if the episode fetch or the
\* monitor call fails, the SeasonSearch command is not sent.
C37_EpisodesMonitoredFirst ==
    GivenSeasonMonitored =>
        /\ \A i \in 1..Len(fut.log) :
              /\ fut.log[i].op = "SeasonSearch" =>
                    /\ \E j \in 1..(i - 1) :
                          fut.log[j].op = "GET episode" /\ fut.log[j].ok
                    /\ EpisodesOfSeason # <<>> =>
                          \E j \in 1..(i - 1) :
                              /\ fut.log[j].op = "PUT episode/monitor"
                              /\ fut.log[j].ok
                              /\ fut.log[j].ids = episode_ids(EpisodesOfSeason)
              /\ fut.log[i].op = "PUT episode/monitor" =>
                    /\ EpisodesOfSeason # <<>>
                    /\ fut.log[i].ids = episode_ids(EpisodesOfSeason)
              /\ (fut.log[i].op \in {"GET episode", "PUT episode/monitor"}
                     /\ ~ fut.log[i].ok) =>
                    /\ i = Len(fut.log)
                    /\ fut.pc = "finished"
                    /\ fut.failed_seasons = fut.season_calls
        /\ (fut.pc = "finished" /\ Requests("SeasonSearch") > 0) =>
              /\ Requests("GET episode") = 1
              /\ Requests("PUT episode/monitor")
                    = (IF EpisodesOfSeason = <<>> THEN 0 ELSE 1)

\* season 1, monitored in the record given and holding two listed episodes,
\* was searched: the episodes were listed, both were set monitored, and then
\* the command was sent
C37_Witness ==
    /\ GivenSeasonMonitored
    /\ fut.season_calls = <<1>>
    /\ Len(EpisodesOfSeason) = 2
    /\ fut.pc = "finished"
    /\ Len(fut.log) = 3
    /\ fut.log[1].op = "GET episode" /\ fut.log[1].ok
    /\ fut.log[2].op = "PUT episode/monitor" /\ fut.log[2].ok
    /\ Len(fut.log[2].ids) = 2
    /\ fut.log[3].op = "SeasonSearch"

-----------------------------------------------------------------------------
(* Failed polls of the media server (SpecRun) *)

\* the k-th poll of the media server failed
FailedPoll(k) == k \in 1..Len(run.results) /\ run.results[k] = "err"

\* the events the answers of the media server held so far
Reported == MaxEvents - source.left

\* C38: a failed poll of the media server yields an error item and does not
\* end the stream of events: the source sleeps for the configured interval
\* and polls again, and the wiring drops the error, so that nothing but the
\* events of the successful polls goes to the Decision Engine.
C38_FailedPollDropped ==
    /\ Len(run.results) = run.polls
    /\ run.sent + Len(run.batch) = Reported
    /\ run.sent <= Reported
    /\ \A k \in 1..Len(run.results) :
          FailedPoll(k) =>
             /\ run.pc = "running"
             /\ k < Len(run.waits) => run.waits[k + 1] = run.interval
             /\ k = Len(run.results) =>
                   /\ run.batch = <<>>
                   /\ run.delay = run.interval

\* the first poll failed and nothing was sent; the source slept for the
\* interval and polled again, and the event of that answer was sent and is
\* with the Decision Engine
C38_Witness ==
    /\ run.results = <<"err", "ok">>
    /\ run.waits = <<0, run.interval>>
    /\ run.sent = 1
    /\ Reported = 1
    /\ fut.np # None

-----------------------------------------------------------------------------
(* Delivery of the events (SpecProcess) *)

\* the events the producer has put into the channel
Sent == MaxEvents - source.left

\* the events Actor::prefetch has returned for: those sent that are neither
\* queued nor with prefetch()
Handled ==
    Sent - Len(chan) - (IF fut.pc \in {"recv", "returned"} THEN 0 ELSE 1)

\* C39: if every request to the PVR eventually returns, every event the
\* producer puts into the channel is eventually dequeued and handled by the
\* Decision Engine, in the order sent: the queue is taken from at its head
\* only, by prefetch() taking up that very event, prefetch() lets go of an
\* event only at its end, and the n-th event sent leads to n events handled.
C39_EverySentEventHandled ==
    /\ [][ /\ (chan' # chan /\ Len(chan') <= Len(chan)) =>
                 /\ chan' = Tail(chan)
                 /\ fut.pc = "recv"
                 /\ fut'.np = Some(Head(chan))
                 /\ fut'.pc \in {"series", "finished"}
                 /\ recvd'[Len(recvd')] = [np |-> Head(chan), at |-> now,
                                           outcome |-> "none"]
           /\ (fut.np # None /\ fut'.np # fut.np) =>
                 /\ fut.pc = "finished"
                 /\ fut' = Idle
                 /\ chan' = chan
                 /\ recvd'[Len(recvd')] = [recvd[Len(recvd)] EXCEPT
                                              !.outcome = fut.outcome] ]_vars
    /\ \A n \in 1..MaxEvents : (Sent >= n) ~> (Handled >= n)

\* two different events were sent and both were handled, in the order sent,
\* with the sender still there
C39_Witness ==
    /\ tx_open
    /\ Sent = 2
    /\ Handled = 2
    /\ Len(recvd) = 2
    /\ recvd[1].np # recvd[2].np
    /\ recvd[1].outcome # "none"
    /\ recvd[2].outcome \in {"ok", "err"}

-----------------------------------------------------------------------------
(* The size of the Seen cache (SpecSeen) *)

\* the keys of the entries of a cache
KeysOf(s) == {e.season : e \in s}

\* the keys observed within the last 7 days, as a call at time t finds them:
\* those of the entries it retains and the key of the call
ObservedWithin(s, np, t) ==
    KeysOf({e \in s : t - e.touched <= RETAIN_DURATION}) \cup {KeyOf(np)}

\* C40: after any sequence of once() calls the cache holds at most one entry
\* for a key; right after a call it holds no entry older than 7 days, every
\* entry it holds is the latest observation of its key (an entry it held
\* before, or the entry of the call, stamped with the time of the call), and
\* so it holds no more entries than keys were observed within the last 7
\* days.
C40_SizeBounded ==
    /\ [](\A e1, e2 \in seen : e1.season = e2.season => e1 = e2)
    /\ []((last.calls > 0 /\ now = last.at) =>
            /\ \A e \in seen : now - e.touched <= RETAIN_DURATION
            /\ [season |-> KeyOf(last.np), touched |-> now] \in seen)
    /\ [][ (last' # last \/ seen' # seen) =>
             /\ \A e \in seen' :
                   /\ now - e.touched <= RETAIN_DURATION
                   /\ \/ e \in seen /\ e.season # KeyOf(last'.np)
                      \/ e = [season |-> KeyOf(last'.np), touched |-> now]
             /\ KeysOf(seen') = ObservedWithin(seen, last'.np, now)
             /\ Cardinality(seen')
                   <= Cardinality(ObservedWithin(seen, last'.np, now)) ]_vars

\* a call for a second key, more than 7 days after the only call for the
\* first: the stale entry is gone and the cache holds one entry
C40_Witness ==
    /\ last.calls = 2
    /\ last.ret
    /\ last.old = -1
    /\ now = last.at
    /\ now > RETAIN_DURATION
    /\ Cardinality(seen) = 1

============================================================================
